---- MODULE Spec2Model ----
(***************************************************************************)
(* A model of the mkmd editor session (src/editor.go, src/file.go,         *)
(* src/render.go and the event loop in src/unnamed/part_002).              *)
(*                                                                         *)
(* A rune is its code point (an integer), a line is a sequence of runes,   *)
(* the document is a sequence of lines.  A byte of a string that is not    *)
(* part of a valid UTF-8 encoding is the negative of its value, so that    *)
(* -255 is the byte 0xFF.  Cursor and line indices are                     *)
(* 0-based as in the Go code; TLA+ sequences are 1-based, so line y of the *)
(* document is lines[y + 1].  The file on disk is the sequence of its      *)
(* runes, with NL as the line separator, read through ScanLines (the       *)
(* bufio.Scanner) and written through JoinLines (the "\n"-separated write  *)
(* loop).  The Editor struct is the record e.                              *)
(***************************************************************************)
EXTENDS Integers, Sequences, FiniteSets, TLC

\* ------------------------------------------------------------------ bounds
\* The chunk size (10000 in src/editor.go:198), scaled down.
maxLines == 2
\* The history cap (100 in src/editor.go:16), scaled down.
maxUndoStates == 3
\* A line of the live document holds at most this many runes.
MaxLineLen == 2
\* The live document holds at most this many lines.
MaxDocLines == 3
\* A session handles at most this many events.
MaxSteps == 4
\* The backing file holds at most this many lines more than two full chunks.
MaxExtraLines == 2

\* ------------------------------------------------------------------ runes
\* "\n", the line separator of the file (src/file.go:62).
NL == 10

Min(a, b) == IF a < b THEN a ELSE b
Max(a, b) == IF a > b THEN a ELSE b

\* The first n elements of s (all of s when it is shorter), and the rest.
Take(s, n) == SubSeq(s, 1, IF n > Len(s) THEN Len(s) ELSE n)
Drop(s, n) == IF n >= Len(s) THEN <<>> ELSE SubSeq(s, n + 1, Len(s))
Last(s) == s[Len(s)]
Front(s) == SubSeq(s, 1, Len(s) - 1)

\* The first position of rune r in s, 0 when there is none.
IndexOf(s, r) ==
    IF \E i \in 1..Len(s) : s[i] = r
    THEN CHOOSE i \in 1..Len(s) : s[i] = r /\ \A j \in 1..(i - 1) : s[j] # r
    ELSE 0

\* utf8.RuneCountInString: every rune, and every byte that is not part of a
\* valid encoding, counts one.
runeLen(s) == Len(s)

\* []rune(s): a byte that is not part of a valid encoding decodes to U+FFFD.
\* string(runes) of the result encodes every rune as it is.
toRunes(s) == [i \in 1..Len(s) |-> IF s[i] < 0 THEN 65533 ELSE s[i]]

\* What a call returns: its value, or a run-time panic.
Ret(v) == [panicked |-> FALSE, value |-> v]
PanicRet == [panicked |-> TRUE, value |-> <<>>]

\* runes[lo:hi] of n runes is a valid slice expression.
SliceOK(n, lo, hi) == 0 <= lo /\ lo <= hi /\ hi <= n

\* A negative index taken as it is.
clampLow_none(i) == i

\* if i < 0 { i = 0 }
clampLow(i) == IF i < 0 THEN 0 ELSE i

\* if i > n { i = n }
clampHigh(i, n) == IF i > n THEN n ELSE i

\* runeInsert(s, pos, insert): pos is clamped to [0, len].
runeInsertCall(s, pos, insert) ==
    LET runes == toRunes(s)
        n     == Len(runes)
        p     == clampHigh(clampLow(pos), n)
    IN  IF ~SliceOK(n, 0, p) THEN PanicRet
        ELSE Ret(SubSeq(runes, 1, p) \o toRunes(insert) \o SubSeq(runes, p + 1, n))

runeInsert(s, pos, insert) == runeInsertCall(s, pos, insert).value

\* runeDelete(s, start, end): start is clamped to 0, end to len; an empty or
\* inverted range returns s itself.
runeDeleteCall(s, start, end) ==
    LET runes == toRunes(s)
        n     == Len(runes)
        st    == clampLow(start)
        en    == clampHigh(end, n)
    IN  IF st >= en THEN Ret(s)
        ELSE IF ~SliceOK(n, st, en) THEN PanicRet
        ELSE Ret(SubSeq(runes, 1, st) \o SubSeq(runes, en + 1, n))

runeDelete(s, start, end) == runeDeleteCall(s, start, end).value

\* runeSubstring(s, start, end): start is clamped to 0, end to [start, len].
runeSubstringCall(s, start, end) ==
    LET runes == toRunes(s)
        n     == Len(runes)
        st    == clampLow(start)
        e1    == IF end < st THEN st ELSE end
    IN  IF st >= n THEN Ret(<<>>)
        ELSE IF ~SliceOK(n, st, clampHigh(e1, n)) THEN PanicRet
        ELSE Ret(SubSeq(runes, st + 1, clampHigh(e1, n)))

runeSubstring(s, start, end) == runeSubstringCall(s, start, end).value

\* runewidth.RuneWidth: 2 columns for the CJK ideographs, 1 otherwise.
displayWidthRune(r) == IF r >= 19968 /\ r <= 40959 THEN 2 ELSE 1

RECURSIVE displayWidth(_)
displayWidth(s) ==
    IF s = <<>> THEN 0 ELSE displayWidthRune(s[1]) + displayWidth(Tail(s))

\* --------------------------------------------------------------- file text
\* The write loop of saveEntireFile / saveChunkToFile: the lines, with "\n"
\* written before every line but the first.
RECURSIVE JoinLines(_)
JoinLines(ls) ==
    IF ls = <<>> THEN <<>>
    ELSE IF Len(ls) = 1 THEN ls[1]
    ELSE ls[1] \o <<NL>> \o JoinLines(Tail(ls))

\* bufio.ScanLines drops one trailing "\r" of a token.
dropCR(tok) == IF tok # <<>> /\ Last(tok) = 13 THEN Front(tok) ELSE tok

\* bufio.Scanner with the default split function: every "\n"-terminated
\* token, then the unterminated rest when it is not empty.
RECURSIVE ScanLines(_)
ScanLines(bytes) ==
    IF bytes = <<>> THEN <<>>
    ELSE LET i == IndexOf(bytes, NL)
         IN  IF i = 0 THEN <<dropCR(bytes)>>
             ELSE <<dropCR(Take(bytes, i - 1))>> \o ScanLines(Drop(bytes, i))

\* strings.Split(s, "\n"): the "\n"-separated records of a text, the last
\* one included when it is empty.
RECURSIVE SplitNL(_)
SplitNL(bytes) ==
    LET i == IndexOf(bytes, NL)
    IN  IF i = 0 THEN <<bytes>>
        ELSE <<Take(bytes, i - 1)>> \o SplitNL(Drop(bytes, i))

\* ------------------------------------------------------------ the session
\* The Editor struct (src/editor.go:18-48).  panicked records a Go run-time
\* panic (index or slice out of range), which ends the program.
NewEditorStruct(filename, width, height) ==
    [ lines |-> << <<>> >>, cursorX |-> 0, cursorY |-> 0,
      filename |-> filename, width |-> width, height |-> height,
      offsetY |-> 0, offsetX |-> 0,
      undoStack |-> <<>>, redoStack |-> <<>>,
      modified |-> FALSE, searchTerm |-> <<>>,
      truncated |-> FALSE,
      selectionStart |-> FALSE, selectionStartX |-> 0, selectionStartY |-> 0,
      clipboard |-> <<>>, currentChunk |-> 0,
      cachedWordCount |-> 0, wordCountValid |-> FALSE,
      scrollMomentum |-> 0,
      panicked |-> FALSE ]

\* A run-time panic: the state is left as it was when the panic was raised.
Panic(e) == [e EXCEPT !.panicked = TRUE]

\* e.lines[y] is a valid index expression.
ValidLine(e, y) == y >= 0 /\ y < Len(e.lines)

\* e.lines[y]
LineAt(e, y) == e.lines[y + 1]

\* CapStack without the eviction of the oldest entry.
CapStack_noEvict(s) == s

\* The history cap applied after an append: the oldest entry is dropped.
CapStack(s) == IF Len(s) > maxUndoStates THEN Tail(s) ELSE s

\* pushUndoState that leaves the redo stack as it is.
pushUndoState_keepsRedo(e) ==
    [e EXCEPT !.undoStack = CapStack(Append(@, e.lines))]

pushUndoState(e) ==
    [e EXCEPT !.undoStack = CapStack(Append(@, e.lines)), !.redoStack = <<>>]

invalidateWordCount(e) == [e EXCEPT !.wordCountValid = FALSE]

clearSearch(e) == [e EXCEPT !.searchTerm = <<>>]

clearSelection(e) == [e EXCEPT !.selectionStart = FALSE]

startSelection(e) ==
    IF ~e.selectionStart
    THEN [e EXCEPT !.selectionStart = TRUE, !.selectionStartX = e.cursorX,
                   !.selectionStartY = e.cursorY]
    ELSE e

adjustCursorPosition(e) ==
    LET n  == Len(e.lines)
        y1 == IF e.cursorY >= n THEN (IF n - 1 < 0 THEN 0 ELSE n - 1) ELSE e.cursorY
    IN  IF n > 0 /\ y1 < n /\ y1 < 0 THEN Panic([e EXCEPT !.cursorY = y1])
        ELSE LET len == IF n > 0 /\ y1 < n THEN runeLen(e.lines[y1 + 1]) ELSE 0
             IN  [e EXCEPT !.cursorY = y1,
                           !.cursorX = IF e.cursorX > len THEN len ELSE e.cursorX]

\* undo() that saves for redo the state it loads, not the one it leaves.
undo_savesLoaded(e) ==
    IF Len(e.undoStack) > 1
    THEN LET u == Front(e.undoStack)
         IN  adjustCursorPosition(
                 [e EXCEPT !.redoStack = CapStack(Append(@, Last(u))),
                           !.undoStack = u,
                           !.lines = Last(u),
                           !.wordCountValid = FALSE,
                           !.modified = TRUE])
    ELSE e

undo(e) ==
    IF Len(e.undoStack) > 1
    THEN LET u == Front(e.undoStack)
         IN  adjustCursorPosition(
                 [e EXCEPT !.redoStack = CapStack(Append(@, e.lines)),
                           !.undoStack = u,
                           !.lines = Last(u),
                           !.wordCountValid = FALSE,
                           !.modified = TRUE])
    ELSE e

redo(e) ==
    IF Len(e.redoStack) > 0
    THEN LET nextState == Last(e.redoStack)
         IN  adjustCursorPosition(
                 [e EXCEPT !.redoStack = Front(@),
                           !.undoStack = Append(@, nextState),
                           !.lines = nextState,
                           !.wordCountValid = FALSE,
                           !.modified = TRUE])
    ELSE e

scroll(e) ==
    [e EXCEPT !.offsetY = IF @ < 0 THEN 0 ELSE @,
              !.offsetX = IF @ < 0 THEN 0 ELSE @]

\* The display column of the cursor: the widths of the runes before it.
cursorDisplayX(e) ==
    LET line == LineAt(e, e.cursorY)
    IN  displayWidth(Take(line, Min(Max(e.cursorX, 0), Len(line))))

\* The margin of ensureCursorVisible (src/render.go:255).
margin == 5

ensureCursorVisible(e) ==
    LET oy1 == IF e.cursorY < e.offsetY THEN e.cursorY ELSE e.offsetY
        oy2 == IF e.cursorY >= oy1 + e.height - 1
               THEN Max(e.cursorY - (e.height - 2), 0) ELSE oy1
        e1  == [e EXCEPT !.offsetY = oy2]
    IN  IF e.cursorY < Len(e.lines)
        THEN IF e.cursorY < 0 THEN Panic(e1)
             ELSE LET c    == cursorDisplayX(e)
                      left == e.offsetX + margin
                      right == e.offsetX + e.width - 1 - margin
                      ox1  == IF c < left THEN Max(c - margin, 0) ELSE e.offsetX
                      ox2  == IF c > right
                              THEN Max(c - (e.width - 1 - margin), 0) ELSE ox1
                  IN  [e1 EXCEPT !.offsetX = ox2]
        ELSE e1

\* ------------------------------------------------------------------ edits
\* The line slot insertChar and insertNewline make when the cursor is below
\* the last line, and the clamp of cursorX to the line's length.
withCursorLine(e) ==
    LET e1 == IF e.cursorY >= Len(e.lines)
              THEN [e EXCEPT !.lines = Append(@, <<>>), !.cursorY = Len(e.lines)]
              ELSE e
    IN  IF e1.cursorY < 0 THEN Panic(e1)
        ELSE [e1 EXCEPT !.cursorX = Min(@, Len(LineAt(e1, e1.cursorY)))]

insertChar(e, ch) ==
    LET e1 == withCursorLine(invalidateWordCount(clearSearch(pushUndoState(e))))
    IN  IF e1.panicked THEN e1
        ELSE ensureCursorVisible(
                 [e1 EXCEPT !.lines[e1.cursorY + 1] = runeInsert(@, e1.cursorX, <<ch>>),
                            !.cursorX = @ + 1,
                            !.modified = TRUE])

\* The leading run of spaces and tabs of a line.
RECURSIVE leadingWhitespace(_)
leadingWhitespace(line) ==
    IF line # <<>> /\ line[1] \in {32, 9}
    THEN <<line[1]>> \o leadingWhitespace(Tail(line))
    ELSE <<>>

insertNewline(e) ==
    LET e1 == withCursorLine(invalidateWordCount(clearSearch(pushUndoState(e))))
    IN  IF e1.panicked THEN e1
        ELSE IF e1.cursorX < 0 THEN Panic(e1)
        ELSE LET y    == e1.cursorY
                 line == LineAt(e1, y)
                 ws   == leadingWhitespace(line)
             IN  ensureCursorVisible(
                     [e1 EXCEPT !.lines = Take(e1.lines, y)
                                          \o << Take(line, e1.cursorX),
                                                ws \o Drop(line, e1.cursorX) >>
                                          \o Drop(e1.lines, y + 1),
                                !.cursorY = y + 1,
                                !.cursorX = runeLen(ws),
                                !.modified = TRUE])

backspace(e) ==
    LET e1 == invalidateWordCount(clearSearch(pushUndoState(e)))
        y  == e1.cursorY
    IN  IF e1.cursorX > 0
        THEN IF ~ValidLine(e1, y) THEN Panic(e1)
             ELSE ensureCursorVisible(
                      [e1 EXCEPT !.lines[y + 1] = runeDelete(@, e1.cursorX - 1, e1.cursorX),
                                 !.cursorX = @ - 1,
                                 !.modified = TRUE])
        ELSE IF y > 0
        THEN IF ~ValidLine(e1, y) THEN Panic(e1)
             ELSE ensureCursorVisible(
                      [e1 EXCEPT !.lines = Take(e1.lines, y - 1)
                                           \o << LineAt(e1, y - 1) \o LineAt(e1, y) >>
                                           \o Drop(e1.lines, y + 1),
                                 !.cursorY = y - 1,
                                 !.cursorX = runeLen(LineAt(e1, y - 1)),
                                 !.modified = TRUE])
        ELSE ensureCursorVisible(e1)

delete(e) ==
    LET e1 == invalidateWordCount(clearSearch(pushUndoState(e)))
        y  == e1.cursorY
    IN  IF y < Len(e1.lines)
        THEN IF y < 0 THEN Panic(e1)
             ELSE IF e1.cursorX < Len(LineAt(e1, y))
             THEN ensureCursorVisible(
                      [e1 EXCEPT !.lines[y + 1] = runeDelete(@, e1.cursorX, e1.cursorX + 1),
                                 !.modified = TRUE])
             ELSE IF y < Len(e1.lines) - 1
             THEN ensureCursorVisible(
                      [e1 EXCEPT !.lines = Take(e1.lines, y)
                                           \o << LineAt(e1, y) \o LineAt(e1, y + 1) >>
                                           \o Drop(e1.lines, y + 2),
                                 !.modified = TRUE])
             ELSE ensureCursorVisible(e1)
        ELSE ensureCursorVisible(e1)

\* -------------------------------------------------------------- selection
\* The anchor and the cursor, the smaller (line, offset) first.
selRange(e) ==
    LET sx == e.selectionStartX  sy == e.selectionStartY
        ex == e.cursorX          ey == e.cursorY
    IN  IF sy > ey \/ (sy = ey /\ sx > ex)
        THEN [startX |-> ex, startY |-> ey, endX |-> sx, endY |-> sy]
        ELSE [startX |-> sx, startY |-> sy, endX |-> ex, endY |-> ey]

\* getSelectedText indexes a line or slices its runes out of range.
selPanics(e) ==
    LET r == selRange(e)
        n == Len(e.lines)
    IN  IF r.startY = r.endY
        THEN r.startY < n /\ (r.startY < 0 \/ r.startX < 0)
        ELSE \/ r.startY < 0
             \/ r.startY < n /\ r.startX < 0
             \/ r.endY < n /\ r.endX < 0

\* deleteSelection indexes a line or slices its runes out of range.
delSelPanics(e) ==
    LET r == selRange(e)
        n == Len(e.lines)
    IN  IF r.startY = r.endY
        THEN r.startY < n /\ (r.startY < 0 \/ r.startX < 0)
        ELSE r.startY < n /\ r.endY < n
             /\ (r.startY < 0 \/ r.startX < 0 \/ r.endX < 0)

\* The text of lines y..endY of a multi-line selection.
RECURSIVE selTextFrom(_, _, _)
selTextFrom(e, r, y) ==
    IF y > r.endY \/ y >= Len(e.lines) THEN <<>>
    ELSE LET line == LineAt(e, y)
             part == IF y = r.startY
                     THEN (IF r.startX < Len(line) THEN Drop(line, r.startX) ELSE <<>>)
                     ELSE IF y = r.endY THEN Take(line, Min(r.endX, Len(line)))
                     ELSE line
         IN  part \o (IF y < r.endY THEN <<NL>> ELSE <<>>) \o selTextFrom(e, r, y + 1)

getSelectedText(e) ==
    LET r == selRange(e)
    IN  IF ~e.selectionStart THEN <<>>
        ELSE IF r.startY = r.endY
        THEN IF r.startY >= Len(e.lines) THEN <<>>
             ELSE LET line == LineAt(e, r.startY)
                  IN  SubSeq(line, Min(r.startX, Len(line)) + 1, Min(r.endX, Len(line)))
        ELSE selTextFrom(e, r, r.startY)

deleteSelection(e) ==
    IF ~e.selectionStart THEN e
    ELSE LET e1 == invalidateWordCount(clearSearch(pushUndoState(e)))
             r  == selRange(e1)
             n  == Len(e1.lines)
         IN  IF delSelPanics(e1) THEN Panic(e1)
             ELSE IF r.startY = r.endY
             THEN IF r.startY < n
                  THEN LET line == LineAt(e1, r.startY)
                           sx   == Min(r.startX, Len(line))
                           ex   == Min(r.endX, Len(line))
                       IN  [e1 EXCEPT !.lines[r.startY + 1] = Take(line, sx) \o Drop(line, ex),
                                      !.cursorX = sx, !.cursorY = r.startY,
                                      !.selectionStart = FALSE, !.modified = TRUE]
                  ELSE [e1 EXCEPT !.selectionStart = FALSE, !.modified = TRUE]
             ELSE IF r.startY < n /\ r.endY < n
                  THEN LET startLine == LineAt(e1, r.startY)
                           endLine   == LineAt(e1, r.endY)
                           sx == Min(r.startX, Len(startLine))
                           ex == Min(r.endX, Len(endLine))
                       IN  [e1 EXCEPT !.lines = Take(e1.lines, r.startY)
                                                \o << Take(startLine, sx) \o Drop(endLine, ex) >>
                                                \o Drop(e1.lines, r.endY + 1),
                                      !.cursorX = sx, !.cursorY = r.startY,
                                      !.selectionStart = FALSE, !.modified = TRUE]
                  ELSE [e1 EXCEPT !.selectionStart = FALSE, !.modified = TRUE]

copy(e) ==
    IF ~e.selectionStart THEN e
    ELSE IF selPanics(e) THEN Panic(e)
    ELSE [e EXCEPT !.clipboard = getSelectedText(e)]

cut(e) ==
    IF ~e.selectionStart THEN e
    ELSE IF selPanics(e) THEN Panic(e)
    ELSE deleteSelection([e EXCEPT !.clipboard = getSelectedText(e)])

paste(e) ==
    IF e.clipboard = <<>> THEN e
    ELSE LET e0 == clearSearch(pushUndoState(e))
             e1 == IF e0.selectionStart THEN deleteSelection(e0) ELSE e0
             clip == SplitNL(e1.clipboard)
             k  == Len(clip)
             y  == e1.cursorY
         IN  IF e1.panicked THEN e1
             ELSE IF ~ValidLine(e1, y) THEN Panic(e1)
             ELSE IF k = 1
             THEN ensureCursorVisible(
                      [e1 EXCEPT !.lines[y + 1] = runeInsert(@, e1.cursorX, clip[1]),
                                 !.cursorX = @ + runeLen(clip[1]),
                                 !.modified = TRUE])
             ELSE IF e1.cursorX < 0 \/ e1.cursorX > Len(LineAt(e1, y)) THEN Panic(e1)
             ELSE LET line == LineAt(e1, y)
                  IN  ensureCursorVisible(
                          [e1 EXCEPT !.lines = Take(e1.lines, y)
                                               \o << Take(line, e1.cursorX) \o clip[1] >>
                                               \o SubSeq(clip, 2, k - 1)
                                               \o << clip[k] \o Drop(line, e1.cursorX) >>
                                               \o Drop(e1.lines, y + 1),
                                     !.cursorY = y + k - 1,
                                     !.cursorX = runeLen(clip[k]),
                                     !.modified = TRUE])

\* ----------------------------------------------------------------- search
\* A ToLower that maps nothing: the search is case-sensitive.
ToLower_identity(r) == r

\* unicode.ToLower on the runes the model uses.
ToLower(r) ==
    IF r >= 65 /\ r <= 90 THEN r + 32
    ELSE IF r = 304 THEN 105
    ELSE IF r = 570 THEN 11365
    ELSE IF r = 8490 THEN 107
    ELSE r

lowerSeq(s) == [i \in 1..Len(s) |-> ToLower(s[i])]

\* The length of the UTF-8 encoding of a rune.
utf8Len(r) == IF r < 128 THEN 1 ELSE IF r < 2048 THEN 2 ELSE IF r < 65536 THEN 3 ELSE 4

RECURSIVE byteLen(_)
byteLen(s) == IF s = <<>> THEN 0 ELSE utf8Len(s[1]) + byteLen(Tail(s))

\* The rune positions (0-based) at which term occurs in text, both lowered.
matchStarts(text, term) ==
    LET lt == lowerSeq(text)
        ln == lowerSeq(term)
    IN  {p \in 0..(Len(lt) - Len(ln)) : SubSeq(lt, p + 1, p + Len(ln)) = ln}

SetMin(S) == CHOOSE x \in S : \A y \in S : x <= y
SetMax(S) == CHOOSE x \in S : \A y \in S : x >= y

\* strings.Index(strings.ToLower(text), strings.ToLower(term)): a byte index
\* into the lowered text, -1 when there is no match.
lowerIndex(text, term) ==
    LET P == matchStarts(text, term)
    IN  IF P = {} THEN -1 ELSE byteLen(Take(lowerSeq(text), SetMin(P)))

\* strings.LastIndex on the lowered strings.
lowerLastIndex(text, term) ==
    LET P == matchStarts(text, term)
    IN  IF P = {} THEN -1 ELSE byteLen(Take(lowerSeq(text), SetMax(P)))

\* utf8.RuneCountInString(text[:idx]) for a byte index idx <= len(text): the
\* whole runes before idx, and one rune for every byte of a rune cut by idx.
RECURSIVE runeCountPrefix(_, _)
runeCountPrefix(text, idx) ==
    IF idx <= 0 \/ text = <<>> THEN 0
    ELSE IF utf8Len(text[1]) <= idx
    THEN 1 + runeCountPrefix(Tail(text), idx - utf8Len(text[1]))
    ELSE idx

\* The first line at or after y (below stop) that holds the term, -1 if none.
firstLineWith(e, y, stop) ==
    LET S == {k \in y..(stop - 1) : lowerIndex(LineAt(e, k), e.searchTerm) # -1}
    IN  IF S = {} THEN -1 ELSE SetMin(S)

\* The last line at or before y (above stop) that holds the term, -1 if none.
lastLineWith(e, y, stop) ==
    LET S == {k \in (stop + 1)..y : lowerIndex(LineAt(e, k), e.searchTerm) # -1}
    IN  IF S = {} THEN -1 ELSE SetMax(S)

\* foundAt that also drops the selection.
foundAt_clearsSelection(e, y, base, text, idx) ==
    IF idx > byteLen(text) THEN Panic(e)
    ELSE ensureCursorVisible(
             [e EXCEPT !.cursorY = y, !.cursorX = base + runeCountPrefix(text, idx),
                       !.selectionStart = FALSE])

\* The cursor put on a match found at byte index idx of the text that starts
\* at rune base of line y; text[:idx] out of range panics.
foundAt(e, y, base, text, idx) ==
    IF idx > byteLen(text) THEN Panic(e)
    ELSE ensureCursorVisible(
             [e EXCEPT !.cursorY = y, !.cursorX = base + runeCountPrefix(text, idx)])

findNext(e) ==
    IF e.searchTerm = <<>> THEN e
    ELSE
    LET n      == Len(e.lines)
        startY == e.cursorY
        startX == e.cursorX + 1
        term   == e.searchTerm
        \* the cursor's line, from startX on
        ownOK  == startY >= 0 /\ startY < n /\ startX < Len(LineAt(e, startY))
        ownTxt == Drop(LineAt(e, startY), startX)
        ownIdx == IF ownOK THEN lowerIndex(ownTxt, term) ELSE -1
        fwd    == firstLineWith(e, Max(startY + 1, 0), n)
        wrapTo == Min(startY, n)
        wrap   == firstLineWith(e, 0, wrapTo)
    IN  IF startY < 0 /\ startY < n THEN Panic(e)
        ELSE IF ownOK /\ startX < 0 THEN Panic(e)
        ELSE IF ownIdx # -1 THEN foundAt(e, startY, startX, ownTxt, ownIdx)
        ELSE IF startY < n /\ fwd # -1
        THEN foundAt(e, fwd, 0, LineAt(e, fwd), lowerIndex(LineAt(e, fwd), term))
        ELSE IF wrap # -1
        THEN foundAt(e, wrap, 0, LineAt(e, wrap), lowerIndex(LineAt(e, wrap), term))
        ELSE IF startY > n THEN Panic(e)
        ELSE IF startY < n /\ e.cursorX > 0 /\ e.cursorX <= Len(LineAt(e, startY))
        THEN LET txt == Take(LineAt(e, startY), e.cursorX)
                 idx == lowerIndex(txt, term)
             IN  IF idx = -1 THEN e
                 ELSE IF idx > byteLen(txt) THEN Panic(e)
                 ELSE ensureCursorVisible(
                          [e EXCEPT !.cursorX = runeCountPrefix(txt, idx)])
        ELSE e

findPrev(e) ==
    IF e.searchTerm = <<>> THEN e
    ELSE
    LET n      == Len(e.lines)
        startY == e.cursorY
        startX == e.cursorX - 1
        term   == e.searchTerm
        ownOK  == startY >= 0 /\ startY < n /\ startX >= 0
        ownTxt == Take(LineAt(e, startY), Min(startX + 1, Len(LineAt(e, startY))))
        ownIdx == IF ownOK THEN lowerLastIndex(ownTxt, term) ELSE -1
        back   == lastLineWith(e, startY - 1, -1)
        wrap   == lastLineWith(e, n - 1, Max(startY, -1))
    IN  IF startY >= 0 /\ startY >= n THEN Panic(e)
        ELSE IF ownIdx # -1 THEN foundAt(e, startY, 0, ownTxt, ownIdx)
        ELSE IF startY >= 0 /\ back # -1
        THEN foundAt(e, back, 0, LineAt(e, back), lowerLastIndex(LineAt(e, back), term))
        ELSE IF wrap # -1
        THEN foundAt(e, wrap, 0, LineAt(e, wrap), lowerLastIndex(LineAt(e, wrap), term))
        ELSE e

\* ------------------------------------------------------------- word count
\* unicode.IsSpace on the runes the model uses.
isSpace(r) == r \in {9, 10, 11, 12, 13, 32, 133, 160}

\* len(strings.Fields(line)): the maximal runs of non-space runes.
fieldCount(line) ==
    Cardinality({i \in 1..Len(line) :
                    ~isSpace(line[i]) /\ (i = 1 \/ isSpace(line[i - 1]))})

RECURSIVE countWords(_)
countWords(ls) ==
    IF ls = <<>> THEN 0 ELSE fieldCount(ls[1]) + countWords(Tail(ls))

\* wordCount() as a state change: the cache is filled when it is not valid.
wordCount(e) ==
    IF e.wordCountValid THEN e
    ELSE [e EXCEPT !.cachedWordCount = countWords(e.lines), !.wordCountValid = TRUE]

\* -------------------------------------------------------- scroll momentum
\* scrollMomentum is a float64 in the program.  Here it is a whole number of
\* hundredths of a line; sums of wheel deltas are exact, and the product with
\* the decay factor is one of the two hundredths that enclose the exact
\* product (the choice r), so that the program's value always lies between
\* two values the model holds.
maxScrollMomentum == 25000

\* momentumDecay, in hundredths.
momentumDecay == 85

\* The 0.1 below which the momentum stops, in hundredths of a line.
momentumStop == 10

\* The delta of one wheel tick: scrollAmount * 15 lines.
wheelDelta == 1500

addScrollMomentum(e, delta) ==
    LET m == e.scrollMomentum + delta
    IN  [e EXCEPT !.scrollMomentum =
            IF m > maxScrollMomentum THEN maxScrollMomentum
            ELSE IF m < -maxScrollMomentum THEN -maxScrollMomentum
            ELSE m]

\* scrollAmountOf that rounds to the nearest line.
scrollAmountOf_rounds(m) == Max((m + 500) \div 1000, 1)

\* int(m * 0.1) for m >= 0, at least 1: the conversion truncates.
scrollAmountOf(m) == Max(m \div 1000, 1)

\* decayed without the stop below 0.1.
decayed_noStop(m, r) ==
    LET p == m * momentumDecay
    IN  (p \div 100) + (IF p % 100 # 0 /\ r = 1 THEN 1 ELSE 0)

\* The end of applyScrollMomentum: the momentum times the decay factor, and
\* 0 when that is below 0.1 in magnitude; r chooses the hundredth the
\* product is rounded to (0: down, 1: up).
decayed(m, r) ==
    LET p  == m * momentumDecay
        m2 == (p \div 100) + (IF p % 100 # 0 /\ r = 1 THEN 1 ELSE 0)
    IN  IF m2 < momentumStop /\ m2 > -momentumStop THEN 0 ELSE m2

\* applyScrollMomentum, with the rounding choice r of decayed.
applyScrollMomentum(e, r) ==
    LET m == e.scrollMomentum
        maxOffset == Max(Len(e.lines) - e.height + 1, 0)
        e1 == IF m > momentumStop
              THEN IF e.offsetY + scrollAmountOf(m) > maxOffset
                   THEN [e EXCEPT !.offsetY = maxOffset, !.scrollMomentum = 0]
                   ELSE [e EXCEPT !.offsetY = @ + scrollAmountOf(m)]
              ELSE IF m < -momentumStop
              THEN IF e.offsetY - scrollAmountOf(-m) < 0
                   THEN [e EXCEPT !.offsetY = 0, !.scrollMomentum = 0]
                   ELSE [e EXCEPT !.offsetY = @ - scrollAmountOf(-m)]
              ELSE e
    IN  IF m = 0 THEN e
        ELSE [e1 EXCEPT !.scrollMomentum = decayed(@, r)]

\* draw(): the status bar recomputes the word count; reading the cursor's
\* line panics on a negative cursorY.
draw(e) ==
    LET e1 == wordCount(e)
    IN  IF e1.cursorY < Len(e1.lines) /\ e1.cursorY < 0 THEN Panic(e1) ELSE e1

\* The end of every iteration of the event loop of run(): scroll(),
\* applyScrollMomentum(), draw().
afterFrame(e, r) ==
    IF e.panicked THEN e ELSE draw(applyScrollMomentum(scroll(e), r))

\* The end of an iteration in a session without wheel events, where the
\* momentum is 0 and nothing is rounded.
afterEvent(e) == afterFrame(e, 0)

\* --------------------------------------------------------------- movement
\* Shift starts or keeps a selection, a plain move clears it.
withShift(e, shift) == IF shift THEN startSelection(e) ELSE clearSelection(e)

keyLeft(e, shift) ==
    LET e1 == withShift(e, shift)
    IN  IF e1.cursorX > 0 THEN ensureCursorVisible([e1 EXCEPT !.cursorX = @ - 1])
        ELSE IF e1.cursorY > 0
        THEN IF ~ValidLine(e1, e1.cursorY - 1) THEN Panic(e1)
             ELSE ensureCursorVisible(
                      [e1 EXCEPT !.cursorY = @ - 1,
                                 !.cursorX = runeLen(LineAt(e1, e1.cursorY - 1))])
        ELSE ensureCursorVisible(e1)

keyRight(e, shift) ==
    LET e1 == withShift(e, shift)
    IN  IF e1.cursorY < Len(e1.lines) /\ e1.cursorY < 0 THEN Panic(e1)
        ELSE IF e1.cursorY < Len(e1.lines) /\ e1.cursorX < runeLen(LineAt(e1, e1.cursorY))
        THEN ensureCursorVisible([e1 EXCEPT !.cursorX = @ + 1])
        ELSE IF e1.cursorY < Len(e1.lines) - 1
        THEN ensureCursorVisible([e1 EXCEPT !.cursorY = @ + 1, !.cursorX = 0])
        ELSE ensureCursorVisible(e1)

keyUp(e, shift) ==
    LET e1 == withShift(e, shift)
    IN  IF e1.cursorY > 0
        THEN IF ~ValidLine(e1, e1.cursorY - 1) THEN Panic(e1)
             ELSE ensureCursorVisible(
                      [e1 EXCEPT !.cursorY = @ - 1,
                                 !.cursorX = Min(@, runeLen(LineAt(e1, e1.cursorY - 1)))])
        ELSE ensureCursorVisible(e1)

keyDown(e, shift) ==
    LET e1 == withShift(e, shift)
    IN  IF e1.cursorY < Len(e1.lines) - 1
        THEN IF ~ValidLine(e1, e1.cursorY + 1) THEN Panic(e1)
             ELSE ensureCursorVisible(
                      [e1 EXCEPT !.cursorY = @ + 1,
                                 !.cursorX = Min(@, runeLen(LineAt(e1, e1.cursorY + 1)))])
        ELSE ensureCursorVisible(e1)

keyHome(e, shift) == ensureCursorVisible([withShift(e, shift) EXCEPT !.cursorX = 0])

keyEnd(e, shift) ==
    LET e1 == withShift(e, shift)
    IN  IF e1.cursorY < Len(e1.lines)
        THEN IF e1.cursorY < 0 THEN Panic(e1)
             ELSE ensureCursorVisible([e1 EXCEPT !.cursorX = runeLen(LineAt(e1, e1.cursorY))])
        ELSE ensureCursorVisible(e1)

keyCtrlHome(e, shift) ==
    ensureCursorVisible([withShift(e, shift) EXCEPT !.cursorY = 0, !.cursorX = 0])

keyCtrlEnd(e, shift) ==
    LET e1 == [withShift(e, shift) EXCEPT !.cursorY = Len(e.lines) - 1]
    IN  IF e1.cursorY >= 0 /\ e1.cursorY < Len(e1.lines)
        THEN ensureCursorVisible([e1 EXCEPT !.cursorX = runeLen(LineAt(e1, e1.cursorY))])
        ELSE ensureCursorVisible(e1)

keyPgUp(e) ==
    ensureCursorVisible(
        [clearSelection(e) EXCEPT !.cursorY = Max(@ - (e.height - 1), 0)])

keyPgDn(e) ==
    LET y == e.cursorY + (e.height - 1)
    IN  ensureCursorVisible(
            [clearSelection(e) EXCEPT
                !.cursorY = IF y >= Len(e.lines) THEN Len(e.lines) - 1 ELSE y])

\* Ctrl+A: select the entire document.
keyCtrlA(e) ==
    LET y == Len(e.lines) - 1
    IN  [e EXCEPT !.selectionStart = TRUE, !.selectionStartX = 0,
                  !.selectionStartY = 0, !.cursorY = y,
                  !.cursorX = IF y >= 0 THEN runeLen(e.lines[y + 1]) ELSE @]

\* unicode.IsLetter, unicode.IsDigit or '_': the ASCII letters and digits,
\* the underscore and the CJK ideographs.
isWordRune(r) ==
    \/ r = 95
    \/ r >= 48 /\ r <= 57
    \/ r >= 65 /\ r <= 90
    \/ r >= 97 /\ r <= 122
    \/ r >= 19968 /\ r <= 40959

\* for x < len && isWordChar(runes[x]) == word { x++ }
RECURSIVE skipRight(_, _, _)
skipRight(runes, x, word) ==
    IF x < Len(runes) /\ isWordRune(runes[x + 1]) = word
    THEN skipRight(runes, x + 1, word) ELSE x

\* for x > 0 && isWordChar(runes[x-1]) == word { x-- }
RECURSIVE skipLeft(_, _, _)
skipLeft(runes, x, word) ==
    IF x > 0 /\ isWordRune(runes[x]) = word
    THEN skipLeft(runes, x - 1, word) ELSE x

\* moveWordLeft that skips the word runes before the non-word runes.
moveWordLeft_wordFirst(e) ==
    IF e.cursorY >= Len(e.lines) THEN e
    ELSE IF e.cursorY < 0 THEN Panic(e)
    ELSE LET runes == toRunes(LineAt(e, e.cursorY))
         IN  IF e.cursorX = 0
             THEN IF e.cursorY > 0
                  THEN [e EXCEPT !.cursorY = @ - 1,
                                 !.cursorX = runeLen(LineAt(e, e.cursorY - 1))]
                  ELSE e
             ELSE IF e.cursorX > Len(runes) THEN Panic(e)
             ELSE [e EXCEPT !.cursorX =
                       skipLeft(runes, skipLeft(runes, e.cursorX, TRUE), FALSE)]

moveWordLeft(e) ==
    IF e.cursorY >= Len(e.lines) THEN e
    ELSE IF e.cursorY < 0 THEN Panic(e)
    ELSE LET runes == toRunes(LineAt(e, e.cursorY))
         IN  IF e.cursorX = 0
             THEN IF e.cursorY > 0
                  THEN [e EXCEPT !.cursorY = @ - 1,
                                 !.cursorX = runeLen(LineAt(e, e.cursorY - 1))]
                  ELSE e
             ELSE IF e.cursorX > Len(runes) THEN Panic(e)
             ELSE [e EXCEPT !.cursorX =
                       skipLeft(runes, skipLeft(runes, e.cursorX, FALSE), TRUE)]

moveWordRight(e) ==
    IF e.cursorY >= Len(e.lines) THEN e
    ELSE IF e.cursorY < 0 THEN Panic(e)
    ELSE LET runes == toRunes(LineAt(e, e.cursorY))
         IN  IF e.cursorX >= Len(runes)
             THEN IF e.cursorY < Len(e.lines) - 1
                  THEN [e EXCEPT !.cursorY = @ + 1, !.cursorX = 0]
                  ELSE e
             ELSE IF e.cursorX < 0 THEN Panic(e)
             ELSE [e EXCEPT !.cursorX =
                       skipRight(runes, skipRight(runes, e.cursorX, TRUE), FALSE)]

\* Ctrl+Left and Ctrl+Right, with or without Shift.
keyCtrlLeft(e, shift) ==
    LET e1 == moveWordLeft(withShift(e, shift))
    IN  IF e1.panicked THEN e1 ELSE ensureCursorVisible(e1)

keyCtrlRight(e, shift) ==
    LET e1 == moveWordRight(withShift(e, shift))
    IN  IF e1.panicked THEN e1 ELSE ensureCursorVisible(e1)

\* goToLine: the prompt's answer parsed as a number (parsed = FALSE for an
\* empty or non-numeric answer), clamped to the document's lines.
goToLine(e, parsed, lineNum) ==
    IF ~parsed THEN e
    ELSE ensureCursorVisible(
             [e EXCEPT !.cursorY = Min(Max(lineNum - 1, 0), Len(e.lines) - 1),
                       !.cursorX = 0,
                       !.selectionStart = FALSE])

\* A typed rune: the selection is cleared, not replaced.
keyRune(e, ch) == insertChar(clearSelection(e), ch)

\* The rune index a click on display column col of a line resolves to.
RECURSIVE clickRune(_, _, _, _)
clickRune(runes, i, currentDisplayX, target) ==
    IF i >= Len(runes) THEN i
    ELSE LET w == displayWidthRune(runes[i + 1])
         IN  IF currentDisplayX + (w \div 2) > target THEN i
             ELSE clickRune(runes, i + 1, currentDisplayX + w, target)

\* handleMouse for a left click on screen cell (x, y).
mouseClick(e, x, y) ==
    IF y >= 0 /\ y < e.height - 1
    THEN LET targetLineY == y + e.offsetY
         IN  IF targetLineY >= 0 /\ targetLineY < Len(e.lines)
             THEN LET runes == LineAt(e, targetLineY)
                  IN  ensureCursorVisible(
                          [e EXCEPT !.cursorY = targetLineY,
                                    !.cursorX = Min(clickRune(runes, 0, 0, x + e.offsetX),
                                                    Len(runes)),
                                    !.selectionStart = FALSE])
             ELSE e
    ELSE e

\* handleMouse: a wheel event adds momentum or moves the horizontal offset
\* and returns; button 1 is a click; any other event does nothing.
handleMouse(e, buttons, x, y) ==
    IF buttons = "WheelUp" THEN addScrollMomentum(e, -wheelDelta)
    ELSE IF buttons = "WheelDown" THEN addScrollMomentum(e, wheelDelta)
    ELSE IF buttons = "WheelLeft" THEN [e EXCEPT !.offsetX = Max(@ - 3, 0)]
    ELSE IF buttons = "WheelRight" THEN [e EXCEPT !.offsetX = @ + 3]
    ELSE IF buttons = "Button1" THEN mouseClick(e, x, y)
    ELSE e

\* search(): the prompt returned term; an empty answer changes nothing.
search(e, term) ==
    IF term = <<>> THEN e ELSE findNext([e EXCEPT !.searchTerm = term])

\* redraw(true) of searchIncremental with the typed term input: a non-empty
\* term restarts the search from the top of the document.
incRedraw(e, input) ==
    LET e1 == [e EXCEPT !.searchTerm = input]
        e2 == IF input # <<>>
              THEN findNext([e1 EXCEPT !.cursorY = 0, !.cursorX = -1])
              ELSE e1
    IN  IF e2.panicked THEN e2 ELSE draw(e2)

\* ------------------------------------------------------------------ files
\* The file at the session's path: whether it exists, and its text.
NoFile == [exists |-> FALSE, bytes |-> <<>>]
FileOf(bytes) == [exists |-> TRUE, bytes |-> bytes]

\* The outcome of an operation that touches the disk.
Outcome(e, disk, err) == [e |-> e, disk |-> disk, err |-> err]

\* chunkWindow that starts one line late.
chunkWindow_lateStart(all, c) == Take(Drop(all, c * maxLines + 1), maxLines)

\* The window of chunk c in a list of file lines.
chunkWindow(all, c) == Take(Drop(all, c * maxLines), maxLines)

loadFile(e, disk) ==
    IF ~disk.exists THEN Outcome(e, disk, TRUE)
    ELSE LET all  == ScanLines(disk.bytes)
             read == Take(all, maxLines)
             e1   == [e EXCEPT !.lines = IF read = <<>> THEN << <<>> >> ELSE read,
                               !.truncated = IF Len(all) > maxLines THEN TRUE ELSE @]
         IN  Outcome(invalidateWordCount(pushUndoState(e1)), disk, FALSE)

\* NewEditor: the struct, then the load of the named file, whose error (the
\* file does not exist) is ignored.
NewEditor(filename, disk, width, height) ==
    LET e0 == NewEditorStruct(filename, width, height)
    IN  IF filename # "" THEN loadFile(e0, disk).e ELSE e0

\* The file as the write loop leaves it.
written(ls) == FileOf(JoinLines(ls))

saveEntireFile(e, disk, createOK) ==
    IF ~createOK THEN Outcome(e, disk, TRUE)
    ELSE Outcome([e EXCEPT !.modified = FALSE], written(e.lines), FALSE)

\* spliceChunk that takes the chunk on disk to be as long as the live document.
spliceChunk_liveLength(allLines, lines, currentChunk) ==
    LET chunkStartLine == currentChunk * maxLines
        chunkEndLine   == Min(chunkStartLine + Len(lines), Len(allLines))
    IN  Take(allLines, chunkStartLine) \o lines \o Drop(allLines, chunkEndLine)

\* The spliced line list of saveChunkToFile: the file's lines before the
\* chunk, the live lines, the file's lines after the chunk.
spliceChunk(allLines, lines, currentChunk) ==
    LET chunkStartLine == currentChunk * maxLines
        chunkEndLine   == Min(chunkStartLine + maxLines, Len(allLines))
    IN  Take(allLines, chunkStartLine) \o lines \o Drop(allLines, chunkEndLine)

\* allLines[:chunkStartLine] beyond the file's end is out of range.
saveChunkToFile(e, disk, createOK) ==
    IF ~disk.exists THEN Outcome(e, disk, TRUE)
    ELSE LET allLines == ScanLines(disk.bytes)
         IN  IF e.currentChunk * maxLines > Len(allLines)
             THEN Outcome(Panic(e), disk, TRUE)
             ELSE IF ~createOK THEN Outcome(e, disk, TRUE)
             ELSE Outcome([e EXCEPT !.modified = FALSE],
                          written(spliceChunk(allLines, e.lines, e.currentChunk)),
                          FALSE)

saveFile(e, disk, createOK) ==
    IF e.currentChunk = 0 /\ ~e.truncated
    THEN saveEntireFile(e, disk, createOK)
    ELSE saveChunkToFile(e, disk, createOK)

\* saveFileWithPrompt: an unnamed buffer asks for a name (answer, "" when
\* cancelled) and, when that file exists, whether to overwrite it.
saveFileWithPrompt(e, disk, answer, overwrite, mkdirOK, createOK) ==
    IF e.filename = ""
    THEN IF answer = "" THEN Outcome(e, disk, FALSE)
         ELSE IF disk.exists /\ ~overwrite THEN Outcome(e, disk, FALSE)
         ELSE IF ~mkdirOK THEN Outcome([e EXCEPT !.filename = answer], disk, TRUE)
         ELSE saveFile([e EXCEPT !.filename = answer], disk, createOK)
    ELSE saveFile(e, disk, createOK)

\* saveBeforeLeave that asks but does not save.
saveBeforeLeave_discards(e, disk, response, createOK) == Outcome(e, disk, FALSE)

\* The prompt-and-save of loadNextChunk / loadPrevChunk before the live
\* document is discarded.
saveBeforeLeave(e, disk, response, createOK) ==
    IF e.modified /\ response = "y" THEN saveFile(e, disk, createOK)
    ELSE Outcome(e, disk, FALSE)

\* The state a chunk load leaves: the cursor and the viewport at the top,
\* no selection, no search, a fresh history entry.
resetForChunk(e) ==
    pushUndoState(
        [e EXCEPT !.cursorX = 0, !.cursorY = 0, !.offsetY = 0, !.offsetX = 0,
                  !.selectionStart = FALSE, !.searchTerm = <<>>])

\* hasMoreContent that is set whatever the probe finds.
hasMoreContent_always(rest) == TRUE

\* hasMoreContent of loadNextChunk: the read loop calls Scan() once more
\* after the window is full, then the probe calls it again.
hasMoreContent(rest) == Len(rest) > maxLines + 1

loadNextChunk(e, disk, response, createOK) ==
    IF ~e.truncated THEN Outcome(e, disk, FALSE)
    ELSE LET s == saveBeforeLeave(e, disk, response, createOK)
         IN  IF s.err \/ s.e.panicked THEN s
             ELSE IF ~s.disk.exists THEN Outcome(s.e, s.disk, TRUE)
             ELSE LET rest == Drop(ScanLines(s.disk.bytes),
                                   (s.e.currentChunk + 1) * maxLines)
                      read == Take(rest, maxLines)
                      e1   == [s.e EXCEPT !.lines = read]
                  IN  IF read = <<>> THEN Outcome(e1, s.disk, FALSE)
                      ELSE Outcome(
                               resetForChunk(
                                   [e1 EXCEPT !.currentChunk = @ + 1,
                                              !.truncated = hasMoreContent(rest)]),
                               s.disk, FALSE)

\* loadPrevChunk that leaves truncated as the later chunk had it.
loadPrevChunk_truncatedKept(e, disk, response, createOK) ==
    IF e.currentChunk = 0 THEN Outcome(e, disk, FALSE)
    ELSE LET s == saveBeforeLeave(e, disk, response, createOK)
         IN  IF s.err \/ s.e.panicked THEN s
             ELSE IF ~s.disk.exists THEN Outcome(s.e, s.disk, TRUE)
             ELSE LET read == chunkWindow(ScanLines(s.disk.bytes), s.e.currentChunk - 1)
                  IN  Outcome(
                          resetForChunk(
                              [s.e EXCEPT !.lines = IF read = <<>> THEN << <<>> >> ELSE read,
                                          !.currentChunk = @ - 1]),
                          s.disk, FALSE)

loadPrevChunk(e, disk, response, createOK) ==
    IF e.currentChunk = 0 THEN Outcome(e, disk, FALSE)
    ELSE LET s == saveBeforeLeave(e, disk, response, createOK)
         IN  IF s.err \/ s.e.panicked THEN s
             ELSE IF ~s.disk.exists THEN Outcome(s.e, s.disk, TRUE)
             ELSE LET read == chunkWindow(ScanLines(s.disk.bytes), s.e.currentChunk - 1)
                  IN  Outcome(
                          resetForChunk(
                              [s.e EXCEPT !.lines = IF read = <<>> THEN << <<>> >> ELSE read,
                                          !.currentChunk = @ - 1,
                                          !.truncated = TRUE]),
                          s.disk, FALSE)

\* ------------------------------------------------------------- the screen
\* A screen row is the sequence of its cells, cell x of the row being
\* row[x + 1]; screen.Clear() fills the cells with blanks.
blankRow(width) == [x \in 1..width |-> 32]

\* screen.SetContent(x, y, ch, ...) on the row y: a cell outside the screen
\* is ignored.
SetContent(row, x, ch) ==
    IF x >= 0 /\ x < Len(row) THEN [row EXCEPT ![x + 1] = ch] ELSE row

\* advanceToDisplayOffset that neither paints nor counts the hidden part of
\* a wide rune.
RECURSIVE advanceToDisplayOffset_noBlanks(_, _, _, _, _, _)
advanceToDisplayOffset_noBlanks(width, runes, runeIdx, displayX, colOffset, row) ==
    IF runeIdx < Len(runes) /\ colOffset > 0
    THEN LET w == displayWidthRune(runes[runeIdx + 1])
         IN  IF colOffset >= w
             THEN advanceToDisplayOffset_noBlanks(width, runes, runeIdx + 1, displayX,
                                                  colOffset - w, row)
             ELSE [runeIdx |-> runeIdx + 1, displayX |-> displayX, row |-> row]
    ELSE [runeIdx |-> runeIdx, displayX |-> displayX, row |-> row]

\* advanceToDisplayOffset: the runes that the offset hides are passed; the
\* visible columns of a wide rune that the offset cuts are painted blank.
RECURSIVE advanceToDisplayOffset(_, _, _, _, _, _)
advanceToDisplayOffset(width, runes, runeIdx, displayX, colOffset, row) ==
    IF runeIdx < Len(runes) /\ colOffset > 0
    THEN LET w == displayWidthRune(runes[runeIdx + 1])
         IN  IF colOffset >= w
             THEN advanceToDisplayOffset(width, runes, runeIdx + 1, displayX,
                                         colOffset - w, row)
             ELSE LET blanks == Min(w - colOffset, Max(width - displayX, 0))
                  IN  [runeIdx  |-> runeIdx + 1,
                       displayX |-> displayX + blanks,
                       row      |-> [x \in 1..Len(row) |->
                                        IF x - 1 >= displayX /\ x - 1 < displayX + blanks
                                        THEN 32 ELSE row[x]]]
    ELSE [runeIdx |-> runeIdx, displayX |-> displayX, row |-> row]

\* drawPlainRun: the runes from runeIdx on, until the row is full.
RECURSIVE drawPlainRun(_, _, _, _, _)
drawPlainRun(width, runes, runeIdx, displayX, row) ==
    IF runeIdx < Len(runes) /\ displayX < width
    THEN drawPlainRun(width, runes, runeIdx + 1,
                      displayX + displayWidthRune(runes[runeIdx + 1]),
                      SetContent(row, displayX, runes[runeIdx + 1]))
    ELSE row

\* drawLineWithHighlight(line, 0, y) with an empty search term.
drawLineWithHighlight(e, line) ==
    LET runes == toRunes(line)
        a     == advanceToDisplayOffset(e.width, runes, 0, 0, e.offsetX,
                                        blankRow(e.width))
    IN  drawPlainRun(e.width, runes, a.runeIdx, a.displayX, a.row)

\* The text rows of the screen after draw(): the lines from offsetY on, one
\* per row above the status bar.
screenRows(e) ==
    [r \in 1..(e.height - 1) |->
        IF ValidLine(e, e.offsetY + r - 1)
        THEN drawLineWithHighlight(e, LineAt(e, e.offsetY + r - 1))
        ELSE blankRow(e.width)]

\* drawSelection: the cells painted with the selection style, each with its
\* screen column x, its screen row y and the rune ch set in it.  The loop
\* over a line's runes runs while displayX, the display column of the rune,
\* is below the terminal width.
drawSelection(e) ==
    LET s == selRange(e)
        shown(y) == /\ y - e.offsetY >= 0
                    /\ y - e.offsetY < e.height - 1
                    /\ y < Len(e.lines)
        cells(y, startX, endX) ==
            LET runes == toRunes(LineAt(e, y))
                from  == Min(startX, Len(runes))
                to    == Min(endX, Len(runes))
            IN  { [x  |-> displayWidth(Take(runes, i)) - e.offsetX,
                   y  |-> y - e.offsetY,
                   ch |-> runes[i + 1]] :
                  i \in { j \in 0..(Len(runes) - 1) :
                            /\ displayWidth(Take(runes, j)) < e.width
                            /\ j >= from /\ j < to
                            /\ displayWidth(Take(runes, j)) - e.offsetX >= 0
                            /\ displayWidth(Take(runes, j)) - e.offsetX < e.width } }
    IN  IF ~e.selectionStart THEN {}
        ELSE IF s.startY = s.endY
        THEN IF shown(s.startY) THEN cells(s.startY, s.startX, s.endX) ELSE {}
        ELSE UNION { IF shown(y)
                     THEN cells(y,
                                IF y = s.startY THEN s.startX ELSE 0,
                                IF y = s.startY THEN Len(LineAt(e, y))
                                ELSE IF y = s.endY THEN s.endX
                                ELSE Len(LineAt(e, y)))
                     ELSE {} : y \in s.startY..s.endY }

\* handleResize: the new size of the terminal.
handleResize(e, width, height) == [e EXCEPT !.width = width, !.height = height]

\* ------------------------------------------------------------------ state
VARIABLES
    e,       \* the Editor
    disk,    \* the file at the session's path
    mode,    \* "edit": the event loop of run(); "isearch": inside searchIncremental
    lastOp,  \* the operation the last step performed, with its outcome
    trail,   \* how far the session has followed load, next, prev, prev
    hist,    \* the last edit, as undone and redone right after it
    sc,      \* the progress of the edits-undos-redos scenario
    steps,   \* the number of events handled so far
    evicted, \* a history push has dropped the oldest snapshot
    call     \* the last call of a function on its own: arguments and result

vars == <<e, disk, mode, lastOp, trail, hist, sc, steps, evicted, call>>

\* The runes of the keyboard input.
Keys == {120}

\* The answers to "Save changes? (y/n)".
Responses == {"y", "n"}

\* The terminal sizes screen.Size() hands out.
TermSizes == {<<80, 24>>}

\* Line i of a backing file: the digit i.
fileLine(i) == <<48 + i>>

\* The backing files: 0 .. 2 * maxLines + MaxExtraLines numbered lines.
MaxFileLines == 2 * maxLines + MaxExtraLines

numbered(n) == JoinLines([i \in 1..n |-> fileLine(i)])

InitFiles == {FileOf(numbered(n)) : n \in 0..MaxFileLines}

\* The live document stays within the bounds of the model.
DocOK(ed) ==
    /\ Len(ed.lines) <= MaxDocLines
    /\ \A i \in 1..Len(ed.lines) : Len(ed.lines[i]) <= MaxLineLen

\* The backing file stays within the bounds of the model.
DiskOK(d) == Len(ScanLines(d.bytes)) <= MaxFileLines + 1

NoHist == [stage |-> 0, L |-> <<>>, L2 |-> <<>>]
NoScenario == [phase |-> "off", n |-> 0, k |-> 0, j |-> 0, pre |-> <<>>]
NoCall == [op |-> "none", s |-> <<>>, t |-> <<>>, a |-> 0, b |-> 0,
           out |-> <<>>, panicked |-> FALSE]

\* The mutating edit operations.
EditOps == {"insertChar", "insertNewline", "backspace", "delete", "paste", "cut"}

\* hist after a step: an edit that changed the lines starts it, an undo right
\* after that edit and a redo right after that undo advance it.
histAfter(op, old, new) ==
    IF op \in EditOps /\ old.lines # new.lines
    THEN [stage |-> 1, L |-> old.lines, L2 |-> new.lines]
    ELSE IF op = "undo" /\ hist.stage = 1 THEN [hist EXCEPT !.stage = 2]
    ELSE IF op = "redo" /\ hist.stage = 2 THEN [hist EXCEPT !.stage = 3]
    ELSE NoHist

trailAfter(op) ==
    IF trail = "load" /\ op = "loadNextChunk" THEN "next"
    ELSE IF trail = "next" /\ op = "loadPrevChunk" THEN "prev"
    ELSE IF trail = "prev" /\ op = "loadPrevChunk:first" THEN "prevprev"
    ELSE "off"

\* One iteration of the event loop: the handler took e to ne and the disk to
\* nd, then scroll() and draw() ran.
StepCall(op, ne, nd, c) ==
    /\ ~e.panicked
    /\ mode = "edit"
    /\ DocOK(ne)
    /\ DiskOK(nd)
    /\ steps < MaxSteps
    /\ steps' = steps + 1
    /\ evicted' = (evicted \/ (op \in EditOps /\ Len(e.undoStack) = maxUndoStates))
    /\ call' = c
    /\ e' = afterEvent(ne)
    /\ disk' = nd
    /\ lastOp' = op
    /\ trail' = trailAfter(op)
    /\ hist' = histAfter(op, e, ne)
    /\ UNCHANGED <<mode, sc>>

Step(op, ne, nd) == StepCall(op, ne, nd, call)

\* The session after NewEditor and the first draw().
InitSession(files, names) ==
    /\ disk \in files
    /\ \E name \in names, sz \in TermSizes :
          e = afterEvent(NewEditor(name, disk, sz[1], sz[2]))
    /\ mode = "edit"
    /\ lastOp = IF e.filename # "" /\ disk.exists THEN "loadFile" ELSE "new"
    /\ trail = IF lastOp = "loadFile" THEN "load" ELSE "off"
    /\ hist = NoHist
    /\ sc = NoScenario
    /\ steps = 0
    /\ evicted = FALSE
    /\ call = NoCall

\* A named file that exists or not, or an unnamed buffer.
Init ==
    \/ InitSession(InitFiles \cup {NoFile}, {"f"})
    \/ InitSession({NoFile}, {""})

KeyRune == \E ch \in Keys : Step("insertChar", keyRune(e, ch), disk)
KeyEnter == Step("insertNewline", insertNewline(e), disk)
KeyBackspace == Step("backspace", backspace(e), disk)
KeyDelete == Step("delete", delete(e), disk)
KeyCtrlZ == Step("undo", undo(e), disk)
KeyCtrlY == Step("redo", redo(e), disk)
KeyLeft == Step("left", keyLeft(e, FALSE), disk)
KeyRight == Step("right", keyRight(e, FALSE), disk)
KeyUp == Step("up", keyUp(e, FALSE), disk)
KeyDown == Step("down", keyDown(e, FALSE), disk)

\* Ctrl+T: loadNextChunk, labelled with what it did.
KeyCtrlT ==
    \E response \in Responses :
        LET o == loadNextChunk(e, disk, response, TRUE)
        IN  Step(IF ~e.truncated THEN "loadNextChunk:last"
                 ELSE IF o.err THEN "loadNextChunk:error"
                 ELSE IF o.e.currentChunk = e.currentChunk THEN "loadNextChunk:end"
                 ELSE "loadNextChunk",
                 o.e, o.disk)

\* Ctrl+B: loadPrevChunk.
KeyCtrlB ==
    \E response \in Responses :
        LET o == loadPrevChunk(e, disk, response, TRUE)
        IN  Step(IF e.currentChunk = 0 THEN "loadPrevChunk:first"
                 ELSE IF o.err THEN "loadPrevChunk:error"
                 ELSE "loadPrevChunk",
                 o.e, o.disk)

\* Ctrl+S on a named buffer.
KeyCtrlS ==
    /\ e.filename # ""
    /\ LET o == saveFileWithPrompt(e, disk, "", FALSE, TRUE, TRUE)
       IN  Step(IF o.err THEN "save:error"
                ELSE IF e.currentChunk = 0 /\ ~e.truncated THEN "saveEntireFile"
                ELSE "saveChunkToFile",
                o.e, o.disk)

Next ==
    \/ KeyRune \/ KeyEnter \/ KeyBackspace \/ KeyDelete
    \/ KeyCtrlZ \/ KeyCtrlY
    \/ KeyRight \/ KeyDown
    \/ KeyCtrlT \/ KeyCtrlB \/ KeyCtrlS

Spec == Init /\ [][Next]_vars

\* --------------------------------------------- undo/redo round trips
\* A session in which a run of n edits is followed by k = min(n, cap - 1)
\* presses of Ctrl+Z and then k presses of Ctrl+Y.  sc.phase is "off" while
\* the run is being typed (an undo or redo there starts a new run), "undo"
\* and "redo" while the keys of the round trip are pressed; sc.pre is the
\* content before the first Ctrl+Z and sc.j counts the presses made.
Event(op, ne, nsc) ==
    /\ ~e.panicked
    /\ mode = "edit"
    /\ DocOK(ne)
    /\ evicted' = (evicted \/ (op \in EditOps /\ Len(e.undoStack) = maxUndoStates))
    /\ call' = call
    /\ e' = afterEvent(ne)
    /\ lastOp' = op
    /\ trail' = "off"
    /\ hist' = histAfter(op, e, ne)
    /\ sc' = nsc
    /\ UNCHANGED <<disk, mode>>

Typed(op, ne, n) ==
    /\ sc.phase = "off"
    /\ steps < MaxSteps
    /\ steps' = steps + 1
    /\ Event(op, ne, [sc EXCEPT !.n = n])

InitUndoRedo ==
    \/ InitSession({FileOf(numbered(n)) : n \in 0..maxLines}, {"f"})
    \/ InitSession({NoFile}, {""})

RunRune == \E ch \in Keys : Typed("insertChar", keyRune(e, ch), sc.n + 1)
RunEnter == Typed("insertNewline", insertNewline(e), sc.n + 1)
RunBackspace == Typed("backspace", backspace(e), sc.n + 1)
RunDelete == Typed("delete", delete(e), sc.n + 1)
RunCtrlZ == Typed("undo", undo(e), 0)
RunCtrlY == Typed("redo", redo(e), 0)

\* Ctrl+Z of the round trip: the first one fixes k and remembers the content.
TripCtrlZ ==
    /\ steps' = steps
    /\ \/ /\ sc.phase = "off" /\ sc.n >= 1
          /\ Event("undo", undo(e),
                   [sc EXCEPT !.phase = "undo", !.j = 1, !.pre = e.lines,
                              !.k = Min(sc.n, maxUndoStates - 1)])
       \/ /\ sc.phase = "undo" /\ sc.j < sc.k
          /\ Event("undo", undo(e), [sc EXCEPT !.j = sc.j + 1])

\* Ctrl+Y of the round trip, after the k presses of Ctrl+Z.
TripCtrlY ==
    /\ steps' = steps
    /\ \/ /\ sc.phase = "undo" /\ sc.j = sc.k
          /\ Event("redo", redo(e), [sc EXCEPT !.phase = "redo", !.j = 1])
       \/ /\ sc.phase = "redo" /\ sc.j < sc.k
          /\ Event("redo", redo(e), [sc EXCEPT !.j = sc.j + 1])

NextUndoRedo ==
    \/ RunRune \/ RunEnter \/ RunBackspace \/ RunDelete
    \/ RunCtrlZ \/ RunCtrlY
    \/ TripCtrlZ \/ TripCtrlY

SpecUndoRedo == InitUndoRedo /\ [][NextUndoRedo]_vars

\* ------------------------------------------------------ search sessions
\* A session of typing, moving, clicking and searching: Ctrl+F, F3 and the
\* incremental search of F4, whose own event loop runs while mode is
\* "isearch".
SearchRunes == {120, 122}
SearchTerms == {<<>>, <<120>>, <<122>>}
ClickCells == {<<0, 0>>, <<1, 1>>}

InitSearch ==
    \/ InitSession({FileOf(numbered(n)) : n \in 0..maxLines}, {"f"})
    \/ InitSession({NoFile}, {""})

KeyCtrlF == \E term \in SearchTerms : Step("search", search(e, term), disk)
KeyF3 == Step("findNext", findNext(e), disk)
MouseClick ==
    \E c \in ClickCells : Step("click", mouseClick(e, c[1], c[2]), disk)

\* One event of the loop inside searchIncremental; the handlers draw, and
\* scroll() does not run until the loop is left.
IncEvent(op, ne, from, to) ==
    /\ ~e.panicked
    /\ mode = from
    /\ mode' = to
    /\ DocOK(ne)
    /\ steps < MaxSteps
    /\ steps' = steps + 1
    /\ e' = ne
    /\ lastOp' = op
    /\ trail' = "off"
    /\ hist' = NoHist
    /\ UNCHANGED <<disk, sc, evicted, call>>

drawn(ne) == IF ne.panicked THEN ne ELSE draw(ne)

\* F4: searchIncremental starts with the current term.
KeyF4 == IncEvent("isearch:open", incRedraw(e, e.searchTerm), "edit", "isearch")
IncRune ==
    \E ch \in SearchRunes :
        /\ Len(e.searchTerm) < MaxLineLen
        /\ IncEvent("isearch:rune", incRedraw(e, Append(e.searchTerm, ch)),
                    "isearch", "isearch")
IncBackspace ==
    IncEvent("isearch:backspace",
             incRedraw(e, IF e.searchTerm = <<>> THEN <<>> ELSE Front(e.searchTerm)),
             "isearch", "isearch")
IncTab == IncEvent("isearch:tab", drawn(findNext(e)), "isearch", "isearch")
IncBacktab == IncEvent("isearch:backtab", drawn(findPrev(e)), "isearch", "isearch")
IncF3 == IncEvent("isearch:f3", drawn(findNext(e)), "isearch", "isearch")
IncEscape ==
    IncEvent("isearch:escape", afterEvent(drawn(clearSearch(e))), "isearch", "edit")

NextSearch ==
    \/ KeyRune \/ KeyEnter \/ KeyBackspace
    \/ KeyLeft \/ KeyRight \/ KeyUp \/ KeyDown
    \/ KeyCtrlZ \/ KeyCtrlY
    \/ KeyCtrlF \/ KeyF3 \/ MouseClick
    \/ KeyF4 \/ IncRune \/ IncBackspace \/ IncTab \/ IncBacktab \/ IncF3
    \/ IncEscape

SpecSearch == InitSearch /\ [][NextSearch]_vars

\* -------------------------------------------------------- save sessions
\* A session of typing and saving in which the directory creation and the
\* open-for-write of a save may fail.  Ctrl+S stays in the loop whatever the
\* save returns; Ctrl+D leaves run(): mode becomes "exit" after a save that
\* returned nil, "failed" when run() returns the save's error.
Answers == {"", "g"}

InitSave ==
    \/ InitSession({FileOf(numbered(n)) : n \in 0..(maxLines + 1)} \cup {NoFile}, {"f"})
    \/ InitSession({FileOf(numbered(1)), NoFile}, {""})

\* What a call of saveFileWithPrompt did.
saveLabel(old, o, answer, overwrite) ==
    IF o.err THEN "save:error"
    ELSE IF old.e.filename = "" /\ (answer = "" \/ (old.disk.exists /\ ~overwrite))
    THEN "save:cancel"
    ELSE IF old.e.currentChunk = 0 /\ ~old.e.truncated THEN "saveEntireFile"
    ELSE "saveChunkToFile"

SaveCtrlS ==
    \E answer \in Answers, overwrite \in BOOLEAN, mkdirOK \in BOOLEAN,
       createOK \in BOOLEAN :
        LET o == saveFileWithPrompt(e, disk, answer, overwrite, mkdirOK, createOK)
        IN  Step(saveLabel([e |-> e, disk |-> disk], o, answer, overwrite),
                 o.e, o.disk)

SaveCtrlD ==
    \E answer \in Answers, overwrite \in BOOLEAN, mkdirOK \in BOOLEAN,
       createOK \in BOOLEAN :
        LET o == saveFileWithPrompt(e, disk, answer, overwrite, mkdirOK, createOK)
        IN  /\ ~e.panicked
            /\ mode = "edit"
            /\ steps < MaxSteps
            /\ steps' = steps + 1
            /\ mode' = IF o.err THEN "failed" ELSE "exit"
            /\ e' = o.e
            /\ disk' = o.disk
            /\ lastOp' = saveLabel([e |-> e, disk |-> disk], o, answer, overwrite)
            /\ trail' = "off"
            /\ hist' = NoHist
            /\ UNCHANGED <<sc, evicted, call>>

NextSave ==
    \/ KeyRune \/ KeyEnter \/ KeyBackspace \/ KeyDown
    \/ KeyCtrlT \/ KeyCtrlB
    \/ SaveCtrlS \/ SaveCtrlD

SpecSave == InitSave /\ [][NextSave]_vars

\* ------------------------------------------------------ editing sessions
\* A session of typing, selecting, cutting, copying, pasting, undoing and
\* redoing.  sc.phase follows the pattern undo, edit, redo: "undone" after
\* an undo that reverted something, "edited" after a mutation right after
\* it, "redone" after a redo right after that.
MutOps == {"insertChar", "insertNewline", "backspace", "delete", "paste", "cut"}

phaseAfter(op, old) ==
    IF op = "undo" /\ Len(old.undoStack) > 1 THEN "undone"
    ELSE IF sc.phase = "undone" /\ op \in MutOps THEN "edited"
    ELSE IF sc.phase = "edited" /\ op = "redo" THEN "redone"
    ELSE "off"

EditEvent(op, ne) ==
    /\ steps < MaxSteps
    /\ steps' = steps + 1
    /\ Event(op, ne, [sc EXCEPT !.phase = phaseAfter(op, e)])

InitEdit ==
    \/ InitSession({FileOf(numbered(n)) : n \in 0..maxLines}, {"f"})
    \/ InitSession({NoFile}, {""})

EdRune == \E ch \in Keys : EditEvent("insertChar", keyRune(e, ch))
EdEnter == EditEvent("insertNewline", insertNewline(e))
EdBackspace == EditEvent("backspace", backspace(e))
EdDelete == EditEvent("delete", delete(e))
EdCtrlZ == EditEvent("undo", undo(e))
EdCtrlY == EditEvent("redo", redo(e))
EdLeft == \E shift \in BOOLEAN : EditEvent("left", keyLeft(e, shift))
EdDown == \E shift \in BOOLEAN : EditEvent("down", keyDown(e, shift))
EdCtrlA == EditEvent("selectAll", keyCtrlA(e))
EdCtrlC == EditEvent("copy", IF e.selectionStart THEN copy(e) ELSE e)
EdCtrlX == EditEvent(IF e.selectionStart THEN "cut" ELSE "cut:none", cut(e))
EdCtrlV == EditEvent(IF e.clipboard # <<>> THEN "paste" ELSE "paste:empty", paste(e))

NextEdit ==
    \/ EdRune \/ EdEnter \/ EdBackspace \/ EdDelete
    \/ EdCtrlZ \/ EdCtrlY
    \/ EdLeft \/ EdDown \/ EdCtrlA
    \/ EdCtrlC \/ EdCtrlX \/ EdCtrlV

SpecEdit == InitEdit /\ [][NextEdit]_vars

\* ---------------------------------------------------- findNext / findPrev
\* findNext and findPrev as functions of the document, the cursor, the term
\* and the selection: the documents are one or two lines over an alphabet
\* with an upper-case letter and a rune whose lower case is longer in UTF-8,
\* and the document of TestSearchFunctionality; each call is one step.
\* sc.pre is the cursor before the first call, sc.n and sc.k count the
\* calls of findNext and findPrev.
MaxCalls == 3

FindRunes == {120, 88, 570}

RECURSIVE SeqsUpTo(_, _)
SeqsUpTo(S, n) ==
    IF n = 0 THEN {<<>>}
    ELSE LET shorter == SeqsUpTo(S, n - 1)
         IN  shorter \cup {Append(q, r) : q \in shorter, r \in S}

FindLines == SeqsUpTo(FindRunes, MaxLineLen)

HelloDoc ==
    << <<72, 101, 108, 108, 111, 32, 119, 111, 114, 108, 100>>,
       <<84, 104, 105, 115, 32, 105, 115, 32, 97, 32, 116, 101, 115, 116>>,
       <<104, 101, 108, 108, 111, 32, 97, 103, 97, 105, 110>>,
       <<65, 110, 111, 116, 104, 101, 114, 32, 108, 105, 110, 101>> >>

HelloTerm == <<104, 101, 108, 108, 111>>

FindDocs ==
    {<<a>> : a \in FindLines} \cup {<<a, b>> : a, b \in FindLines} \cup {HelloDoc}

FindTerms == {<<>>, <<120>>, <<122>>, <<120, 120>>, <<88, 120>>, HelloTerm}

InitFind ==
    /\ disk = NoFile
    /\ \E doc \in FindDocs, term \in FindTerms, sel \in BOOLEAN :
        \E y \in 0..(Len(doc) - 1) :
          \E x \in 0..Len(doc[y + 1]) :
            /\ doc = HelloDoc => (x = 0 /\ term = HelloTerm)
            /\ term = HelloTerm => doc = HelloDoc
            /\ e = draw([NewEditorStruct("", 80, 24) EXCEPT
                            !.lines = doc, !.cursorX = x, !.cursorY = y,
                            !.searchTerm = term, !.selectionStart = sel])
            /\ sc = [NoScenario EXCEPT !.pre = <<y, x>>]
    /\ mode = "find"
    /\ lastOp = "new"
    /\ trail = "off"
    /\ hist = NoHist
    /\ steps = 0
    /\ evicted = FALSE
    /\ call = NoCall

Call(op, ne, nsc) ==
    /\ ~e.panicked
    /\ mode \in {"find", "text"}
    /\ steps < MaxCalls
    /\ steps' = steps + 1
    /\ e' = ne
    /\ lastOp' = op
    /\ sc' = nsc
    /\ UNCHANGED <<disk, mode, trail, hist, evicted, call>>

CallFindNext == Call("findNext", findNext(e), [sc EXCEPT !.n = @ + 1])
CallFindPrev == Call("findPrev", findPrev(e), [sc EXCEPT !.k = @ + 1])

NextFind == CallFindNext \/ CallFindPrev

SpecFind == InitFind /\ [][NextFind]_vars

\* ------------------------------------------- incremental search at large
\* The loop of searchIncremental entered with an empty term on any of the
\* documents of FindDocs, with the cursor anywhere.
InitIncFind ==
    /\ disk = NoFile
    /\ \E doc \in FindDocs \ {HelloDoc} :
        \E y \in 0..(Len(doc) - 1) :
          \E x \in 0..Len(doc[y + 1]) :
            e = incRedraw(draw([NewEditorStruct("", 80, 24) EXCEPT
                                   !.lines = doc, !.cursorX = x, !.cursorY = y]),
                          <<>>)
    /\ mode = "isearch"
    /\ lastOp = "isearch:open"
    /\ trail = "off"
    /\ hist = NoHist
    /\ sc = NoScenario
    /\ steps = 0
    /\ evicted = FALSE
    /\ call = NoCall

NextIncFind ==
    IncRune \/ IncBackspace \/ IncTab \/ IncBacktab \/ IncF3 \/ IncEscape

SpecIncFind == InitIncFind /\ [][NextIncFind]_vars

\* ------------------------------------------------ the rune operations
\* runeInsert, runeDelete and runeSubstring called on their own, on strings
\* of a letter, a two-column ideograph and a byte that is no valid UTF-8,
\* with indices from one below zero to one above the longest string.
RuneUnits == {97, 19990, -255}

RuneStrings == SeqsUpTo(RuneUnits, MaxLineLen)

RuneIndices == (0 - 1)..(MaxLineLen + 1)

InitRune ==
    /\ e = NewEditorStruct("", 80, 24)
    /\ disk = NoFile
    /\ mode = "call"
    /\ lastOp = "new"
    /\ trail = "off"
    /\ hist = NoHist
    /\ sc = NoScenario
    /\ steps = 0
    /\ evicted = FALSE
    /\ \E s \in RuneStrings, t \in RuneStrings, a \in RuneIndices, b \in RuneIndices :
          call = [NoCall EXCEPT !.s = s, !.t = t, !.a = a, !.b = b]

\* The function op returned r.
Returned(op, r) ==
    /\ call' = [call EXCEPT !.op = op, !.out = r.value, !.panicked = r.panicked]
    /\ UNCHANGED <<e, disk, mode, lastOp, trail, hist, sc, steps, evicted>>

CallRuneInsert ==
    /\ call.op = "none"
    /\ Returned("runeInsert", runeInsertCall(call.s, call.a, call.t))

CallRuneDelete ==
    /\ call.op = "none"
    /\ Returned("runeDelete", runeDeleteCall(call.s, call.a, call.b))

CallRuneSubstring ==
    /\ call.op = "none"
    /\ Returned("runeSubstring", runeSubstringCall(call.s, call.a, call.b))

\* The text inserted at a position of the string is deleted again.
CallDeleteInserted ==
    /\ call.op = "runeInsert"
    /\ ~call.panicked
    /\ 0 <= call.a /\ call.a <= runeLen(call.s)
    /\ Returned("runeInsert;runeDelete",
                runeDeleteCall(call.out, call.a, call.a + runeLen(call.t)))

NextRune ==
    CallRuneInsert \/ CallRuneDelete \/ CallRuneSubstring \/ CallDeleteInserted

SpecRune == InitRune /\ [][NextRune]_vars

\* --------------------------------------------- edits and moves on a text
\* insertNewline and the word moves called on their own, as the tests of
\* src/main_test.go and src/file.go call them: on every document of one or
\* two lines of spaces and letters, with the cursor anywhere in it.  sc.pre
\* is the cursor before the first call.
TextRunes == {32, 120}

TextLines == SeqsUpTo(TextRunes, MaxLineLen)

TextDocs == {<<a>> : a \in TextLines} \cup {<<a, b>> : a, b \in TextLines}

InitText ==
    /\ disk = NoFile
    /\ \E doc \in TextDocs :
        \E y \in 0..(Len(doc) - 1) :
          \E x \in 0..Len(doc[y + 1]) :
            /\ e = draw([NewEditorStruct("", 80, 24) EXCEPT
                            !.lines = doc, !.cursorX = x, !.cursorY = y,
                            !.undoStack = <<doc>>])
            /\ sc = [NoScenario EXCEPT !.pre = <<y, x>>]
    /\ mode = "text"
    /\ lastOp = "new"
    /\ trail = "off"
    /\ hist = NoHist
    /\ steps = 0
    /\ evicted = FALSE
    /\ call = NoCall

CallInsertNewline == Call("insertNewline", insertNewline(e), sc)
CallMoveWordLeft ==
    \E shift \in BOOLEAN : Call("moveWordLeft", keyCtrlLeft(e, shift), sc)
CallMoveWordRight ==
    \E shift \in BOOLEAN : Call("moveWordRight", keyCtrlRight(e, shift), sc)

NextText == CallInsertNewline \/ CallMoveWordLeft \/ CallMoveWordRight

SpecText == InitText /\ [][NextText]_vars

\* ---------------------------------------------------- clicks and drawing
\* A session on a small terminal: one or two lines of letters and two-column
\* ideographs, "a世b" of TestWideGlyphHorizontalScrolling among them, any
\* horizontal offset up to the width of that line; left clicks on the cells
\* and resizes of the terminal.  call holds the last event (a, b: the cell
\* or the size) and, in out, the text rows that draw() painted after it.
WideLine == <<97, 19990, 98>>

ScreenLines == SeqsUpTo({97, 19990}, MaxLineLen) \cup {WideLine}

ScreenDocs == {<<a>> : a \in ScreenLines} \cup {<<WideLine, a>> : a \in ScreenLines}

ScreenSizes == {<<3, 3>>, <<10, 3>>}

ScreenEvent(op, ne, a, b) ==
    /\ ~e.panicked
    /\ mode = "screen"
    /\ steps < MaxCalls
    /\ steps' = steps + 1
    /\ e' = afterEvent(ne)
    /\ lastOp' = op
    /\ call' = [NoCall EXCEPT !.op = op, !.a = a, !.b = b,
                              !.out = screenRows(afterEvent(ne))]
    /\ UNCHANGED <<disk, mode, trail, hist, sc, evicted>>

InitScreen ==
    /\ disk = NoFile
    /\ \E doc \in ScreenDocs, sz \in ScreenSizes, ox \in 0..displayWidth(WideLine) :
          /\ e = draw([NewEditorStruct("", sz[1], sz[2]) EXCEPT
                          !.lines = doc, !.offsetX = ox, !.undoStack = <<doc>>])
          /\ call = [NoCall EXCEPT !.op = "draw", !.out = screenRows(e)]
    /\ mode = "screen"
    /\ lastOp = "new"
    /\ trail = "off"
    /\ hist = NoHist
    /\ sc = NoScenario
    /\ steps = 0
    /\ evicted = FALSE

ClickCell ==
    \E x \in 0..displayWidth(WideLine), y \in 0..2 :
        ScreenEvent("click", mouseClick(e, x, y), x, y)

Resize ==
    \E sz \in ScreenSizes :
        ScreenEvent("resize", handleResize(e, sz[1], sz[2]), sz[1], sz[2])

NextScreen == ClickCell \/ Resize

SpecScreen == InitScreen /\ [][NextScreen]_vars

\* ------------------------------------------- leaving a modified chunk
\* A session on a file of several chunks in which the saves of Ctrl+T and
\* Ctrl+B can fail.  call.op tells what became of the live document when the
\* chunk was left: "clean" (not modified, no prompt), "discarded" (answer
\* n), "saved" (answer y), "failed" (answer y, the save returned an error).
leaveLabel(response, createOK) ==
    IF ~e.modified THEN "clean"
    ELSE IF response # "y" THEN "discarded"
    ELSE IF saveFile(e, disk, createOK).err THEN "failed"
    ELSE "saved"

LeaveCtrlT ==
    /\ e.truncated
    /\ \E response \in Responses, createOK \in BOOLEAN :
        LET o == loadNextChunk(e, disk, response, createOK)
        IN  StepCall(IF o.err THEN "loadNextChunk:error"
                     ELSE IF o.e.currentChunk = e.currentChunk THEN "loadNextChunk:end"
                     ELSE "loadNextChunk",
                     o.e, o.disk,
                     [NoCall EXCEPT !.op = leaveLabel(response, createOK)])

LeaveCtrlB ==
    /\ e.currentChunk > 0
    /\ \E response \in Responses, createOK \in BOOLEAN :
        LET o == loadPrevChunk(e, disk, response, createOK)
        IN  StepCall(IF o.err THEN "loadPrevChunk:error" ELSE "loadPrevChunk",
                     o.e, o.disk,
                     [NoCall EXCEPT !.op = leaveLabel(response, createOK)])

InitLeave == InitSession(InitFiles, {"f"})

NextLeave == KeyRune \/ KeyEnter \/ KeyBackspace \/ LeaveCtrlT \/ LeaveCtrlB

SpecLeave == InitLeave /\ [][NextLeave]_vars

\* --------------------------------------- what the live document stands for
\* A session on a named file in which call.op tells whether the live
\* document stands for the whole file ("whole": it was loaded from a file of
\* at most maxLines lines, or the file was written from it in full) or for a
\* part of it ("part").
coverage(op, ne, nd) ==
    IF op = "saveEntireFile" THEN "whole"
    ELSE IF op \in {"loadNextChunk", "loadPrevChunk"}
    THEN IF ne.currentChunk = 0 /\ Len(ScanLines(nd.bytes)) <= maxLines
         THEN "whole" ELSE "part"
    ELSE IF op = "loadNextChunk:end" THEN "part"
    ELSE call.op

WholeStep(op, ne, nd) ==
    StepCall(op, ne, nd, [NoCall EXCEPT !.op = coverage(op, ne, nd)])

WholeCtrlT ==
    \E response \in Responses :
        LET o == loadNextChunk(e, disk, response, TRUE)
        IN  WholeStep(IF ~e.truncated THEN "loadNextChunk:last"
                      ELSE IF o.err THEN "loadNextChunk:error"
                      ELSE IF o.e.currentChunk = e.currentChunk THEN "loadNextChunk:end"
                      ELSE "loadNextChunk",
                      o.e, o.disk)

WholeCtrlB ==
    \E response \in Responses :
        LET o == loadPrevChunk(e, disk, response, TRUE)
        IN  WholeStep(IF e.currentChunk = 0 THEN "loadPrevChunk:first"
                      ELSE IF o.err THEN "loadPrevChunk:error"
                      ELSE "loadPrevChunk",
                      o.e, o.disk)

WholeCtrlS ==
    LET o == saveFileWithPrompt(e, disk, "", FALSE, TRUE, TRUE)
    IN  WholeStep(IF o.err THEN "save:error"
                  ELSE IF e.currentChunk = 0 /\ ~e.truncated THEN "saveEntireFile"
                  ELSE "saveChunkToFile",
                  o.e, o.disk)

InitWhole ==
    /\ disk \in InitFiles \cup {NoFile}
    /\ \E sz \in TermSizes : e = afterEvent(NewEditor("f", disk, sz[1], sz[2]))
    /\ mode = "edit"
    /\ lastOp = IF disk.exists THEN "loadFile" ELSE "new"
    /\ trail = IF disk.exists THEN "load" ELSE "off"
    /\ hist = NoHist
    /\ sc = NoScenario
    /\ steps = 0
    /\ evicted = FALSE
    /\ call = [NoCall EXCEPT
                  !.op = IF Len(ScanLines(disk.bytes)) <= maxLines
                         THEN "whole" ELSE "part"]

NextWhole ==
    \/ KeyRune \/ KeyEnter \/ KeyBackspace \/ KeyDelete
    \/ WholeCtrlT \/ WholeCtrlB \/ WholeCtrlS

SpecWhole == InitWhole /\ [][NextWhole]_vars

\* ------------------------------------------------- a short terminal
\* The editing session of SpecEdit on a terminal with ViewHeight rows, of
\* which ViewHeight - 1 show text, so that a document of MaxDocLines lines
\* does not fit; Ctrl+G asks for a line number.
ViewHeight == 3

InitView ==
    /\ disk \in {FileOf(numbered(n)) : n \in 1..maxLines}
    /\ e = afterEvent(NewEditor("f", disk, 80, ViewHeight))
    /\ mode = "edit"
    /\ lastOp = "loadFile"
    /\ trail = "load"
    /\ hist = NoHist
    /\ sc = NoScenario
    /\ steps = 0
    /\ evicted = FALSE
    /\ call = NoCall

ViewCtrlG ==
    \/ EditEvent("goToLine:none", goToLine(e, FALSE, 0))
    \/ \E lineNum \in 0..(MaxDocLines + 1) :
          EditEvent("goToLine", goToLine(e, TRUE, lineNum))

NextView == NextEdit \/ ViewCtrlG

SpecView == InitView /\ [][NextView]_vars

\* ------------------------------------------------------- the mouse wheel
\* A session in which only the mouse is used, on a document of WheelLines
\* empty lines: wheel ticks up and down, and mouse events without a button,
\* after each of which the loop of run() applies the momentum.  The wheel
\* may tick any number of times.
WheelLines == 35

WheelButtons == {"WheelUp", "WheelDown"}

WheelEvent(buttons) ==
    /\ ~e.panicked
    /\ mode = "wheel"
    /\ \E r \in {0, 1} : e' = afterFrame(handleMouse(e, buttons, 0, 0), r)
    /\ lastOp' = buttons
    /\ UNCHANGED <<disk, mode, trail, hist, sc, evicted>>

InitWheel ==
    /\ disk = NoFile
    /\ e = draw([NewEditorStruct("", 80, ViewHeight) EXCEPT
                    !.lines = [i \in 1..WheelLines |-> <<>>]])
    /\ mode = "wheel"
    /\ lastOp = "new"
    /\ trail = "off"
    /\ hist = NoHist
    /\ sc = NoScenario
    /\ steps = 0
    /\ evicted = FALSE
    /\ call = NoCall

WheelUp == WheelEvent("WheelUp") /\ UNCHANGED <<steps, call>>
WheelDown == WheelEvent("WheelDown") /\ UNCHANGED <<steps, call>>
MouseMove == WheelEvent("ButtonNone") /\ UNCHANGED <<steps, call>>

NextWheel == WheelUp \/ WheelDown \/ MouseMove

SpecWheel == InitWheel /\ [][NextWheel]_vars

\* The same session with at most MaxWheel wheel ticks, counted in steps, in
\* which the loop keeps taking events; call.a is the parity of the number of
\* frames drawn, so that a frame is a step also when it changes nothing.
MaxWheel == 2

Drawn(buttons) ==
    /\ WheelEvent(buttons)
    /\ call' = [NoCall EXCEPT !.a = 1 - call.a]

TickUp == steps < MaxWheel /\ steps' = steps + 1 /\ Drawn("WheelUp")

TickDown == steps < MaxWheel /\ steps' = steps + 1 /\ Drawn("WheelDown")

Frame == Drawn("ButtonNone") /\ UNCHANGED steps

NextWheelFair == TickUp \/ TickDown \/ Frame

SpecWheelFair == InitWheel /\ [][NextWheelFair]_vars /\ WF_vars(Frame)

\* --------------------------------------------------- a drawn selection
\* The documents and terminals of SpecScreen with a selection: Ctrl+A,
\* Shift+Right, and the horizontal wheel, which moves offsetX by 3 columns
\* and leaves the cursor and the selection alone.
SelCtrlA == ScreenEvent("selectAll", keyCtrlA(e), 0, 0)

SelShiftRight == ScreenEvent("right", keyRight(e, TRUE), 0, 0)

SelWheel ==
    \E buttons \in {"WheelLeft", "WheelRight"} :
        ScreenEvent(buttons, handleMouse(e, buttons, 0, 0), 0, 0)

NextSelect == SelCtrlA \/ SelShiftRight \/ SelWheel

SpecSelect == InitScreen /\ [][NextSelect]_vars

\* ================================================================= claims
\* The lines a read of the file yields.
fileLines == ScanLines(disk.bytes)

\* C1: a chunked save (Ctrl+S with currentChunk # 0 or truncated) leaves the
\* file holding F[0..cs), then the live lines, then F[ce..), where F is the
\* file as read by the save, cs = currentChunk * maxLines and
\* ce = min(len(F), cs + maxLines); when the live document has ce - cs lines
\* the line count is unchanged, live line i is line cs + i of the file and
\* every line outside [cs, ce) is where it was.  The file holds a list of
\* lines when its text is those lines with a newline between each two; a
\* scanner reading that text back does not report a final empty line.
C1_ChunkSaveSplices ==
    [][lastOp' = "saveChunkToFile" =>
        LET F  == fileLines
            cs == e.currentChunk * maxLines
            ce == Min(Len(F), cs + maxLines)
            n  == Len(e.lines)
            expected ==
                [i \in 1..(cs + n + Len(F) - ce) |->
                    IF i <= cs THEN F[i]
                    ELSE IF i <= cs + n THEN e.lines[i - cs]
                    ELSE F[i - n + (ce - cs)]]
            W  == SplitNL(disk'.bytes)
        IN  /\ cs <= Len(F)
            /\ disk'.exists
            /\ disk'.bytes = JoinLines(expected)
            /\ (n = ce - cs /\ n > 0) =>
                  /\ Len(W) = Len(F)
                  /\ \A i \in 1..n : W[cs + i] = e.lines[i]
                  /\ \A i \in 1..Len(F) : (i <= cs \/ i > ce) => W[i] = F[i]
    ]_vars

\* A chunked save of chunk 1 has written a file that differs from every
\* backing file the session can start from.
C1_Witness ==
    /\ lastOp = "saveChunkToFile"
    /\ e.currentChunk = 1
    /\ \A n \in 0..MaxFileLines : disk.bytes # numbered(n)

\* C4: undoStack and redoStack never hold more than maxUndoStates snapshots,
\* whatever the edits, undos, redos and chunk navigations made; an edit on a
\* full undoStack drops its oldest snapshot and appends the new one.
C4_StacksCapped ==
    /\ [](Len(e.undoStack) <= maxUndoStates /\ Len(e.redoStack) <= maxUndoStates)
    /\ [][(lastOp' \in EditOps /\ Len(e.undoStack) = maxUndoStates) =>
            e'.undoStack = Append(Tail(e.undoStack), e.lines)]_vars

\* An edit has pushed onto a full undoStack.
C4_Witness == evicted /\ lastOp \in EditOps /\ Len(e.undoStack) = maxUndoStates

\* C6: the document always has at least one line.
C6_AtLeastOneLine == Len(e.lines) >= 1

\* The window of chunk c of the file lines F, line by line.
isWindow(ls, F, c) ==
    /\ Len(ls) = Max(0, Min(Len(F), (c + 1) * maxLines) - c * maxLines)
    /\ \A i \in 1..Len(ls) : ls[i] = F[c * maxLines + i]

LoadOps == {"loadFile", "loadNextChunk", "loadPrevChunk"}

\* C7 as stated: after the initial load and after every chunk load the live
\* document is the window of currentChunk in the file as that load read it;
\* the initial load sets truncated exactly when the file has more than
\* maxLines lines, and leaves currentChunk = 0.
C7_Original ==
    lastOp \in LoadOps =>
        /\ isWindow(e.lines, fileLines, e.currentChunk)
        /\ lastOp = "loadFile" =>
              /\ e.truncated <=> Len(fileLines) > maxLines
              /\ e.currentChunk = 0

\* C7 as amended: the same, except that an empty window is loaded as the
\* single empty line.
C7_WindowLoaded ==
    lastOp \in LoadOps =>
        /\ \/ isWindow(e.lines, fileLines, e.currentChunk)
           \/ /\ isWindow(<<>>, fileLines, e.currentChunk)
              /\ e.lines = << <<>> >>
        /\ lastOp = "loadFile" =>
              /\ e.truncated <=> Len(fileLines) > maxLines
              /\ e.currentChunk = 0

\* loadPrevChunk has loaded chunk 1, coming back from chunk 2.
C7_Witness ==
    /\ lastOp = "loadPrevChunk"
    /\ e.currentChunk = 1
    /\ Len(e.lines) = maxLines

\* C8: after a loadNextChunk that loaded a window, truncated is true exactly
\* when the file has a line beyond that window.
C8_TruncatedIffMore ==
    lastOp = "loadNextChunk" =>
        (e.truncated <=> Len(fileLines) > (e.currentChunk + 1) * maxLines)

\* The state at each stage of the walk load, next, prev, prev over a file
\* of more than maxLines and at most 2 * maxLines lines.
TwoChunkWalk ==
    LET F == fileLines
    IN  (Len(F) > maxLines /\ Len(F) <= 2 * maxLines) =>
          /\ trail = "load" =>
                /\ e.truncated /\ e.currentChunk = 0
                /\ Len(e.lines) = maxLines
                /\ \A i \in 1..maxLines : e.lines[i] = F[i]
          /\ trail = "next" =>
                /\ e.currentChunk = 1 /\ ~e.truncated
                /\ Len(e.lines) = Len(F) - maxLines
                /\ \A i \in 1..Len(e.lines) : e.lines[i] = F[maxLines + i]
          /\ trail \in {"prev", "prevprev"} =>
                /\ e.currentChunk = 0
                /\ Len(e.lines) = maxLines
                /\ \A i \in 1..maxLines : e.lines[i] = F[i]

\* The walk load, next, prev, prev has been made on a two-chunk file.
C9_Witness ==
    /\ trail = "prevprev"
    /\ Len(fileLines) > maxLines /\ Len(fileLines) <= 2 * maxLines

\* C9: for a file of more than maxLines and at most 2 * maxLines lines, the
\* load gives the first maxLines lines, truncated, chunk 0; loadNextChunk
\* gives chunk 1 with the remaining lines and truncated = false;
\* loadPrevChunk gives chunk 0 with the first maxLines lines again; one
\* more loadPrevChunk changes nothing.
C9_TwoChunkWalk ==
    /\ []TwoChunkWalk
    /\ [][trail' = "prevprev" => (e' = e /\ disk' = disk)]_vars

\* C10: loadNextChunk changes neither the lines, the chunk state, the
\* cursor, the viewport nor the history when truncated is false, and when
\* truncated is true but the file has no line at (currentChunk+1)*maxLines.
C10_NextAtEndIsNoOp ==
    [][lastOp' \in {"loadNextChunk:last", "loadNextChunk:end"} =>
          /\ e'.lines = e.lines
          /\ e'.currentChunk = e.currentChunk /\ e'.truncated = e.truncated
          /\ e'.cursorX = e.cursorX /\ e'.cursorY = e.cursorY
          /\ e'.offsetX = e.offsetX /\ e'.offsetY = e.offsetY
          /\ e'.undoStack = e.undoStack /\ e'.redoStack = e.redoStack
    ]_vars

\* C10 for the first case alone: truncated is false.
C10_NotTruncatedIsNoOp ==
    [][lastOp' = "loadNextChunk:last" => e' = e /\ disk' = disk]_vars

\* C2: an undo right after an edit that changed the lines from L to L2 gives
\* L, and a redo right after that undo gives L2.
C2_UndoThenRedo ==
    /\ hist.stage = 2 => e.lines = hist.L
    /\ hist.stage = 3 => e.lines = hist.L2

\* C3: after a run of N edits, k = min(N, maxUndoStates - 1) undos followed
\* by k redos leave the lines as they were before the first undo.
C3_UndoRedoRoundTrip ==
    (sc.phase = "redo" /\ sc.j = sc.k) => e.lines = sc.pre

\* The round trip has been made after a run that overflowed the history:
\* k is maxUndoStates - 1, less than the number of edits.
C3_Witness ==
    /\ sc.phase = "redo" /\ sc.j = sc.k
    /\ sc.n > maxUndoStates
    /\ sc.k = maxUndoStates - 1
    /\ evicted
    /\ e.lines # << <<>> >>

\* C5: the cursor is always on a line of the document and at a rune offset
\* of that line: 0 <= cursorY < len(lines), 0 <= cursorX <= runeLen(line).
C5_CursorInBounds ==
    /\ 0 <= e.cursorY /\ e.cursorY < Len(e.lines)
    /\ 0 <= e.cursorX /\ e.cursorX <= runeLen(e.lines[e.cursorY + 1])

\* C11: a save that fails (directory creation or open-for-write) returns an
\* error and leaves the lines, the cursor, the modified flag, the chunk
\* state and the filename as they were, and the session goes on.
C11_FailedSaveKeepsState ==
    [][lastOp' = "save:error" =>
          /\ e'.lines = e.lines
          /\ e'.cursorX = e.cursorX /\ e'.cursorY = e.cursorY
          /\ e'.modified = e.modified
          /\ e'.currentChunk = e.currentChunk /\ e'.truncated = e.truncated
          /\ e'.filename = e.filename
          /\ mode' = "edit"
    ]_vars

\* C11 for Ctrl+S on a buffer that has a name: the failed save changes nothing.
C11_NamedCtrlSKeepsState ==
    [][(lastOp' = "save:error" /\ e.filename # "" /\ mode' = "edit") =>
          /\ e'.lines = e.lines
          /\ e'.cursorX = e.cursorX /\ e'.cursorY = e.cursorY
          /\ e'.modified = e.modified
          /\ e'.currentChunk = e.currentChunk /\ e'.truncated = e.truncated
          /\ e'.filename = e.filename
    ]_vars

\* C12: an undo pressed right after loadNextChunk or loadPrevChunk loaded a
\* chunk leaves the document as that load made it.
C12_ChunkIsBaseline ==
    [][(lastOp \in {"loadNextChunk", "loadPrevChunk"} /\ lastOp' = "undo") =>
          e'.lines = e.lines]_vars

\* C13: undoStack holds at least one snapshot from the initial load on.
C13_BaselinePresent == Len(e.undoStack) >= 1

\* What a step leaves alone when it changes neither the lines, the cursor
\* nor the history.
historyUntouched ==
    /\ e'.lines = e.lines
    /\ e'.cursorX = e.cursorX /\ e'.cursorY = e.cursorY
    /\ e'.undoStack = e.undoStack /\ e'.redoStack = e.redoStack

\* C14: every mutation leaves redoStack empty; a redo after an undo and a
\* mutation, like any redo on an empty redoStack, changes neither the lines,
\* the cursor nor the stacks; so does an undo with at most one snapshot.
C14_MutationClearsRedo ==
    /\ [](lastOp \in MutOps => e.redoStack = <<>>)
    /\ [](sc.phase = "edited" => e.redoStack = <<>>)
    /\ [][sc'.phase = "redone" => historyUntouched]_vars
    /\ [][(lastOp' = "redo" /\ e.redoStack = <<>>) => historyUntouched]_vars
    /\ [][(lastOp' = "undo" /\ Len(e.undoStack) <= 1) => historyUntouched]_vars

\* A redo has been pressed after an undo that reverted a change and a
\* mutation that followed it.
C14_Witness == sc.phase = "redone" /\ Len(e.undoStack) >= 2

\* C15: whenever the word count cache is marked valid, the cached value is
\* the number of whitespace-delimited tokens of the live lines.
C15_WordCountCurrent ==
    e.wordCountValid => e.cachedWordCount = countWords(e.lines)

\* The walk of findNext over HelloDoc from (0,0): the line the cursor is on
\* after the first, the second and the third call.
helloWalk(first, second, third) ==
    (e.lines = HelloDoc /\ sc.pre = <<0, 0>> /\ sc.k = 0) =>
        /\ sc.n = 1 => e.cursorY = first
        /\ sc.n = 2 => e.cursorY = second
        /\ sc.n = 3 => e.cursorY = third

\* C16 as stated: findNext for "hello" over ["Hello world", "This is a
\* test", "hello again", "Another line"] from (0,0) visits line 0, then
\* line 2, then line 0.
C16_Original == helloWalk(0, 2, 0)

\* C16 as amended: the match under the cursor is skipped, so the calls
\* visit line 2, then line 0, then line 2, each time at offset 0.
C16_HelloWalk == helloWalk(2, 0, 2) /\ (e.lines = HelloDoc /\ sc.k = 0 => e.cursorX = 0)

\* The third findNext of the walk has been made.
C16_Witness == e.lines = HelloDoc /\ sc.pre = <<0, 0>> /\ sc.k = 0 /\ sc.n = 3

\* The term occurs at rune offset p of line, letter case ignored.
occursAt(line, term, p) ==
    /\ p >= 0 /\ p + Len(term) <= Len(line)
    /\ \A i \in 1..Len(term) : ToLower(line[p + i]) = ToLower(term[i])

\* The starts <<y, x>> of the matches of the term in the document.
matchesOf(ed) ==
    {<<y, x>> \in (0..(Len(ed.lines) - 1)) \X (0..MaxLineLen + 12) :
        occursAt(ed.lines[y + 1], ed.searchTerm, x)}

\* Document order on positions.
posBefore(a, b) == a[1] < b[1] \/ (a[1] = b[1] /\ a[2] < b[2])

firstOf(S) == CHOOSE a \in S : \A b \in S : a = b \/ posBefore(a, b)
lastOf(S) == CHOOSE a \in S : \A b \in S : a = b \/ posBefore(b, a)

cursorOf(ed) == <<ed.cursorY, ed.cursorX>>

\* C17: for a non-empty term findNext puts the cursor on the first match
\* start after the cursor or, when there is none, on the first match start
\* before the cursor; so it ends on a match start whenever a match starts
\* anywhere other than at the cursor.
C17_FindNextTarget ==
    [][(lastOp' = "findNext" /\ e.searchTerm # <<>>) =>
        LET M      == matchesOf(e) \ {cursorOf(e)}
            after  == {m \in M : posBefore(cursorOf(e), m)}
        IN  M # {} =>
              /\ ~e'.panicked
              /\ cursorOf(e') = IF after # {} THEN firstOf(after) ELSE firstOf(M)
    ]_vars

\* C18: for a non-empty term findPrev puts the cursor on the last match
\* start before the cursor or, when there is none, on the last match start
\* after the cursor; so it ends on a match start whenever a match starts
\* anywhere other than at the cursor.
C18_FindPrevTarget ==
    [][(lastOp' = "findPrev" /\ e.searchTerm # <<>>) =>
        LET M      == matchesOf(e) \ {cursorOf(e)}
            before == {m \in M : posBefore(m, cursorOf(e))}
        IN  M # {} =>
              /\ ~e'.panicked
              /\ cursorOf(e') = IF before # {} THEN lastOf(before) ELSE lastOf(M)
    ]_vars

\* C19: findNext and findPrev change neither the lines, the term, the
\* selection nor the history stacks, and leave the cursor where it is when
\* the term is empty or occurs nowhere in the document.
C19_FindFrame ==
    [][lastOp' \in {"findNext", "findPrev"} =>
          /\ e'.lines = e.lines
          /\ e'.searchTerm = e.searchTerm
          /\ e'.selectionStart = e.selectionStart
          /\ e'.selectionStartX = e.selectionStartX
          /\ e'.selectionStartY = e.selectionStartY
          /\ e'.undoStack = e.undoStack /\ e'.redoStack = e.redoStack
          /\ (e.searchTerm = <<>> \/ matchesOf(e) = {}) => cursorOf(e') = cursorOf(e)
    ]_vars

\* A call has been made with a term that occurs nowhere in a document that
\* has a selection.
C19_Witness ==
    /\ lastOp \in {"findNext", "findPrev"}
    /\ e.searchTerm # <<>> /\ matchesOf(e) = {}
    /\ e.selectionStart
    /\ Len(e.lines) = 2

\* The cursor after a change of the incremental term is on the first match
\* of the new term, when the term is not empty and occurs in the document.
reanchored ==
    (lastOp' \in {"isearch:rune", "isearch:backspace"}
        /\ e'.searchTerm # <<>> /\ matchesOf(e') # {}) =>
          /\ ~e'.panicked
          /\ cursorOf(e') = firstOf(matchesOf(e'))

\* C20: in incremental search, after each rune appended to or removed from
\* the term the cursor is on the first match of the new term in document
\* order, wherever it was before.
C20_IncrementalFirstMatch == [][reanchored]_vars

\* C20 for documents all of whose runes keep their encoded length in lower
\* case.
C20_FirstMatchSameWidth ==
    [][(\A y \in 1..Len(e.lines) : \A i \in 1..Len(e.lines[y]) :
            utf8Len(ToLower(e.lines[y][i])) = utf8Len(e.lines[y][i]))
        => reanchored]_vars

\* C21: deleting, at the position of an insertion, as many runes as were
\* inserted gives back the string the text was inserted into.
C21_InsertDeleteInverse ==
    call.op = "runeInsert;runeDelete" => call.out = call.s

\* An index clamped to [0, n].
clamped(i, n) == Max(0, Min(i, n))

\* C22: the rune operations never panic, and an out-of-range index acts as
\* the nearest valid one: insert splices at the clamped position, delete and
\* substring work on the clamped range, an empty or inverted range leaving
\* the string unchanged (delete) or yielding the empty string (substring).
C22_ClampedIndices ==
    LET n  == runeLen(call.s)
        ca == clamped(call.a, n)
        cb == clamped(call.b, n)
        runes == toRunes(call.s)
    IN  /\ ~call.panicked
        /\ call.op = "runeInsert" =>
              /\ call.out = Take(runes, ca) \o toRunes(call.t) \o Drop(runes, ca)
              /\ call.out = runeInsert(call.s, ca, call.t)
        /\ call.op = "runeDelete" =>
              IF ca >= cb THEN call.out = call.s
              ELSE /\ call.out = Take(runes, ca) \o Drop(runes, cb)
                   /\ call.out = runeDelete(call.s, ca, cb)
        /\ call.op = "runeSubstring" =>
              IF ca >= cb THEN call.out = <<>>
              ELSE /\ call.out = SubSeq(runes, ca + 1, cb)
                   /\ call.out = runeSubstring(call.s, ca, cb)

\* A deletion with both indices out of range has emptied a string.
C22_Witness ==
    /\ call.op = "runeDelete"
    /\ call.a < 0 /\ call.b > runeLen(call.s)
    /\ call.s # <<>> /\ call.out = <<>>

\* C23: Enter keeps the indentation: the first line is the text before the
\* cursor, the leading run of spaces and tabs of the new second line is that
\* of the line that was split, and the cursor stands right after it.
C23_NewlineKeepsIndent ==
    [][lastOp' = "insertNewline" =>
          LET y    == e.cursorY
              line == LineAt(e, y)
              W    == leadingWhitespace(line)
          IN  /\ LineAt(e', y) = Take(line, e.cursorX)
              /\ leadingWhitespace(LineAt(e', y + 1)) = W
              /\ e'.cursorY = y + 1
              /\ e'.cursorX = runeLen(W)]_vars

\* All runes of positions lo+1 .. hi of a line are word runes (or none is).
allWord(runes, lo, hi, word) ==
    \A i \in (lo + 1)..hi : isWordRune(runes[i]) = word

\* C26: Ctrl+Right passes the word runes under the cursor and then the
\* non-word runes after them, and goes to column 0 of the next line from the
\* end of a line; Ctrl+Left passes the same runs in the other direction, the
\* non-word runes before the cursor and then the word runes before those, and
\* goes to the end of the previous line from column 0; at the ends of the
\* document the cursor stays, and it is always within the document.
C26_WordMoves ==
    [][LET y     == e.cursorY
           x     == e.cursorX
           runes == LineAt(e, y)
           n     == Len(runes)
           x2    == e'.cursorX
       IN  /\ lastOp' \in {"moveWordLeft", "moveWordRight"} =>
                 /\ e'.lines = e.lines
                 /\ ~e'.panicked
                 /\ ValidLine(e', e'.cursorY)
                 /\ x2 >= 0 /\ x2 <= runeLen(LineAt(e', e'.cursorY))
           /\ lastOp' = "moveWordRight" =>
                 IF x >= n
                 THEN IF y < Len(e.lines) - 1
                      THEN e'.cursorY = y + 1 /\ x2 = 0
                      ELSE e'.cursorY = y /\ x2 = x
                 ELSE /\ e'.cursorY = y
                      /\ \E m \in x..x2 :
                            /\ allWord(runes, x, m, TRUE)
                            /\ allWord(runes, m, x2, FALSE)
                            /\ m = n \/ ~isWordRune(runes[m + 1])
                            /\ x2 = n \/ isWordRune(runes[x2 + 1])
           /\ lastOp' = "moveWordLeft" =>
                 IF x = 0
                 THEN IF y > 0
                      THEN e'.cursorY = y - 1 /\ x2 = runeLen(LineAt(e, y - 1))
                      ELSE e'.cursorY = y /\ x2 = x
                 ELSE /\ e'.cursorY = y
                      /\ \E m \in x2..x :
                            /\ allWord(runes, m, x, FALSE)
                            /\ allWord(runes, x2, m, TRUE)
                            /\ m = 0 \/ isWordRune(runes[m])
                            /\ x2 = 0 \/ ~isWordRune(runes[x2])]_vars

\* Ctrl+Right from the start of "x " has passed the word and the space, and
\* Ctrl+Left from the end of " x" the word only.
C26_Witness ==
    /\ steps = 1
    /\ \/ /\ lastOp = "moveWordRight" /\ sc.pre = <<0, 0>>
          /\ LineAt(e, 0) = <<120, 32>> /\ e.cursorX = 2
       \/ /\ lastOp = "moveWordLeft" /\ sc.pre = <<0, 2>>
          /\ LineAt(e, 0) = <<32, 120>> /\ e.cursorX = 1

\* The offset of position (y, x) in the text of the document (its lines
\* joined by "\n"): the end of its line when x is beyond it, the end of the
\* text when the line is beyond the document.
RECURSIVE offsetOf(_, _, _)
offsetOf(ls, y, x) ==
    IF ls = <<>> THEN 0
    ELSE IF y = 0 THEN Min(x, Len(ls[1]))
    ELSE IF Len(ls) = 1 THEN Len(ls[1])
    ELSE Len(ls[1]) + 1 + offsetOf(Tail(ls), y - 1, x)

\* The normalized selection of an editor, as offsets into its text: from
\* the smaller of anchor and cursor to the larger.
selFrom(ed) ==
    Min(offsetOf(ed.lines, ed.selectionStartY, ed.selectionStartX),
        offsetOf(ed.lines, ed.cursorY, ed.cursorX))

selTo(ed) ==
    Max(offsetOf(ed.lines, ed.selectionStartY, ed.selectionStartX),
        offsetOf(ed.lines, ed.cursorY, ed.cursorX))

\* C24: deleteSelection (Ctrl+X) with an active selection leaves the text
\* before the start of the selection joined to the text after its end, the
\* cursor at the start, no selection, and one more history snapshot, that of
\* the lines before; without a selection it changes nothing.
C24_DeleteSelection ==
    [][LET text  == JoinLines(e.lines)
           start == IF posBefore(cursorOf(e), <<e.selectionStartY, e.selectionStartX>>)
                    THEN cursorOf(e)
                    ELSE <<e.selectionStartY, e.selectionStartX>>
       IN  /\ lastOp' = "cut" =>
                 /\ ~e'.panicked
                 /\ JoinLines(e'.lines) = Take(text, selFrom(e)) \o Drop(text, selTo(e))
                 /\ Len(e'.lines) = Len(SplitNL(JoinLines(e'.lines)))
                 /\ offsetOf(e'.lines, e'.cursorY, e'.cursorX) = selFrom(e)
                 /\ e'.cursorY = start[1]
                 /\ ~e'.selectionStart
                 /\ e'.undoStack = CapStack(Append(e.undoStack, e.lines))
           /\ lastOp' = "cut:none" =>
                 /\ e'.lines = e.lines
                 /\ cursorOf(e') = cursorOf(e)
                 /\ e'.undoStack = e.undoStack
                 /\ e'.modified = e.modified
                 /\ e'.clipboard = e.clipboard]_vars

\* C25: getSelectedText is the text between the smaller and the larger of
\* anchor and cursor, "" without a selection; Ctrl+C, which stores it in the
\* clipboard, changes nothing else of the document, cursor, selection and
\* history.
C25_SelectedText ==
    /\ [](~e.panicked =>
             getSelectedText(e) =
                 IF e.selectionStart
                 THEN SubSeq(JoinLines(e.lines), selFrom(e) + 1, selTo(e))
                 ELSE <<>>)
    /\ [][lastOp' = "copy" =>
             /\ e.selectionStart => e'.clipboard = getSelectedText(e)
             /\ e'.lines = e.lines
             /\ cursorOf(e') = cursorOf(e)
             /\ e'.selectionStart = e.selectionStart
             /\ e'.selectionStartX = e.selectionStartX
             /\ e'.selectionStartY = e.selectionStartY
             /\ e'.undoStack = e.undoStack
             /\ e'.redoStack = e.redoStack]_vars

\* The display column at which rune i (from 1) of a line starts.
startCol(line, i) == displayWidth(Take(line, i - 1))

\* C27: on every text row that draw() painted, a rune that lies wholly
\* within the window of columns offsetX .. offsetX + width - 1 is in the cell
\* of its start column less offsetX, and the visible columns of a wide rune
\* that offsetX cuts are blank; "a世b" shows the ideograph in the first cell
\* at offset 1, and a blank and then b at offset 2.
C27_RowsPainted ==
    \A r \in 1..Len(call.out) :
        ValidLine(e, e.offsetY + r - 1) =>
            LET line == LineAt(e, e.offsetY + r - 1)
                row  == call.out[r]
            IN  /\ \A i \in 1..Len(line) :
                      LET c == startCol(line, i) - e.offsetX
                          w == displayWidthRune(line[i])
                      IN  /\ (c >= 0 /\ c + w <= e.width) => row[c + 1] = line[i]
                          /\ (c < 0 /\ c + w > 0) =>
                                \A x \in 0..(c + w - 1) : x < e.width => row[x + 1] = 32
                /\ (line = WideLine /\ e.offsetX = 1) => row[1] = 19990
                /\ (line = WideLine /\ e.offsetX = 2) => row[1] = 32 /\ row[2] = 98

\* "a世b" has been drawn at offset 2, b in the second cell.
C27_Witness ==
    /\ call.op = "resize"
    /\ e.lines[1] = WideLine /\ e.offsetY = 0 /\ e.offsetX = 2
    /\ call.out[1][1] = 32 /\ call.out[1][2] = 98

\* C28: a left click on a text cell over a line of the document puts the
\* cursor on that line, at the rune that starts in the clicked column (at
\* the end of the line when the click is past it), so that the cursor is
\* drawn in the clicked cell; the selection is cleared and the cursor is
\* within the document.
C28_ClickPositionsCursor ==
    [][(/\ lastOp' = "click"
        /\ call'.b < e.height - 1
        /\ ValidLine(e, call'.b + e.offsetY)) =>
          LET x      == call'.a
              y      == call'.b
              line   == LineAt(e, y + e.offsetY)
              target == x + e.offsetX
          IN  /\ e'.cursorY = y + e.offsetY
              /\ e'.cursorX >= 0 /\ e'.cursorX <= runeLen(line)
              /\ ~e'.selectionStart
              /\ target >= displayWidth(line) => e'.cursorX = runeLen(line)
              /\ \A i \in 1..Len(line) :
                    startCol(line, i) = target =>
                        /\ e'.cursorX = i - 1
                        /\ cursorDisplayX(e') - e'.offsetX = x
                        /\ e'.cursorY - e'.offsetY = y]_vars

\* The lines a chunk load shows of the file F: window c of it, read by
\* loadNextChunk (an empty window empties the document) or by loadPrevChunk
\* (an empty window gives one empty line).
shownWindow(op, F, c) ==
    LET w == Take(Drop(F, c * maxLines), maxLines)
    IN  IF w = <<>> /\ op \in {"loadPrevChunk", "loadPrevChunk:error"}
        THEN << <<>> >> ELSE w

\* C29: Ctrl+T and Ctrl+B on a modified document ask first.  With the
\* answer y the file holds the edits (the live lines in place of the chunk)
\* and the window shown is read from that file; when that save fails, the
\* lines, the cursor, the chunk number and the truncated flag stay as they
\* were; with the answer n, or nothing to save, the file is untouched and
\* the window is read from it.
C29_SaveBeforeLeaving ==
    [][LET next   == lastOp' \in {"loadNextChunk", "loadNextChunk:end", "loadNextChunk:error"}
           prev   == lastOp' \in {"loadPrevChunk", "loadPrevChunk:error"}
           target == IF next THEN e.currentChunk + 1 ELSE e.currentChunk - 1
           saved  == IF e.currentChunk = 0 /\ ~e.truncated THEN e.lines
                     ELSE Take(ScanLines(disk.bytes), e.currentChunk * maxLines)
                          \o e.lines
                          \o Drop(ScanLines(disk.bytes), (e.currentChunk + 1) * maxLines)
       IN  (next \/ prev) =>
             /\ call'.op \in {"clean", "discarded", "saved", "failed"}
             /\ call'.op = "clean" <=> ~e.modified
             /\ call'.op = "failed" =>
                   /\ e'.lines = e.lines
                   /\ cursorOf(e') = cursorOf(e)
                   /\ e'.currentChunk = e.currentChunk
                   /\ e'.truncated = e.truncated
                   /\ ~e'.panicked
             /\ call'.op = "saved" =>
                   /\ disk'.exists
                   /\ disk'.bytes = JoinLines(saved)
                   /\ e'.lines = shownWindow(lastOp', ScanLines(disk'.bytes), target)
             /\ call'.op \in {"clean", "discarded"} =>
                   /\ disk' = disk
                   /\ lastOp' \notin {"loadNextChunk:error", "loadPrevChunk:error"} =>
                         e'.lines = shownWindow(lastOp', ScanLines(disk.bytes), target)]_vars

\* An edited first chunk has been saved on the way to the second one, which
\* therefore starts with a line that the edit pushed out of the first.
C29_Witness ==
    /\ lastOp = "loadNextChunk" /\ call.op = "saved"
    /\ e.currentChunk = 1
    /\ e.lines # <<>> /\ e.lines[1] # fileLine(maxLines + 1)

\* C30: every mutating edit (a typed rune, Enter, Backspace, Delete, a
\* paste with or without a selection, a cut) adds exactly one snapshot to the
\* history, that of the lines before the edit, and returns with no search
\* term and the cursor within the document.
C30_OneSnapshotPerEdit ==
    [][lastOp' \in MutOps =>
          /\ e'.undoStack = CapStack(Append(e.undoStack, e.lines))
          /\ e'.searchTerm = <<>>
          /\ ~e'.panicked
          /\ ValidLine(e', e'.cursorY)
          /\ e'.cursorX >= 0 /\ e'.cursorX <= runeLen(LineAt(e', e'.cursorY))]_vars

\* C31: an edit key that leaves the lines as they were (Backspace at the
\* start of the document, Delete at its end) leaves the history as it was:
\* no snapshot is added and the redo stack is kept.
C31_NoSnapshotWithoutChange ==
    [][(lastOp' \in {"backspace", "delete"} /\ e'.lines = e.lines) =>
          /\ e'.undoStack = e.undoStack
          /\ e'.redoStack = e.redoStack]_vars

\* C32: the chunked save is idempotent: a second Ctrl+S right after a chunked
\* save, with no edit or navigation in between, leaves the file as the first
\* save wrote it.
C32_ChunkSaveIdempotent ==
    [][(lastOp = "saveChunkToFile" /\ lastOp' = "saveChunkToFile") =>
          disk' = disk]_vars

C34_CursorWithinMargins ==
    [][(/\ lastOp' = "click"
        /\ call'.b < e.height - 1
        /\ call'.b + e.offsetY < Len(e.lines)) =>
          LET c == cursorDisplayX(e')
          IN  /\ e'.offsetX >= 0
              /\ c <= e'.offsetX + e'.width - 1 - margin
              /\ (c >= e'.offsetX + margin \/ (e'.offsetX = 0 /\ c < margin))]_vars

\* C35: after every keyboard operation (typing, Enter, Backspace, Delete,
\* arrows, undo, redo, select-all, copy, cut, paste, go-to-line) the cursor's
\* line lies within the text rows of the viewport,
\* offsetY <= cursorY < offsetY + height - 1.
C35_CursorLineVisible ==
    ~e.panicked =>
        /\ e.offsetY <= e.cursorY
        /\ e.cursorY < e.offsetY + e.height - 1

\* The momentum a frame finds: what the handler of the event lastOp' made of
\* the momentum of the state before.
found == handleMouse(e, lastOp', 0, 0).scrollMomentum

\* The largest vertical offset momentum scrolling allows.
maxOffsetOf(ed) == Max(Len(ed.lines) - ed.height + 1, 0)

\* The law of one frame, for the number of lines (|m| + half) / 1000 cut to
\* a whole number and at least 1 (half = 0 truncates m * 0.1, half = 500
\* rounds it): a frame that finds a momentum m of magnitude above 0.1 moves
\* offsetY by that many lines in the direction of m and leaves the momentum
\* m * 0.85, or 0 when that is below 0.1 in magnitude; when the move would
\* pass a scroll boundary, offsetY stops at the boundary and the momentum is
\* 0.  The decayed momentum is stated to within a hundredth.
frameLaw(half) ==
    LET m      == found
        mag    == IF m < 0 THEN -m ELSE m
        amount == Max((mag + half) \div 1000, 1)
        target == IF m > 0 THEN e.offsetY + amount ELSE e.offsetY - amount
        beyond == target < 0 \/ target > maxOffsetOf(e)
        m1     == e'.scrollMomentum
    IN  mag > momentumStop =>
           IF beyond
           THEN /\ e'.offsetY = IF target < 0 THEN 0 ELSE maxOffsetOf(e)
                /\ m1 = 0
           ELSE /\ e'.offsetY = target
                /\ \/ /\ 100 * m1 - momentumDecay * m < 100
                      /\ momentumDecay * m - 100 * m1 < 100
                      /\ (m1 >= momentumStop \/ m1 <= -momentumStop)
                   \/ /\ m1 = 0
                      /\ momentumDecay * mag < 100 * momentumStop

\* C36 (as amended): every frame that finds a momentum of magnitude above
\* 0.1 moves offsetY by int(|momentum| * 0.1) lines (truncated, at least 1:
\* one line for the momentum 15 of a single tick) in the direction of the
\* momentum and then multiplies the momentum by 0.85; offsetY stays within
\* [0, max(0, len(lines) - height + 1)], and a move that would pass a
\* boundary stops there with the momentum 0.
C36_FrameLaw ==
    /\ [](e.offsetY >= 0 /\ e.offsetY <= maxOffsetOf(e))
    /\ [][frameLaw(0)]_vars

\* Two ticks down: the second frame found the momentum 27.75 and moved
\* offsetY by 2 lines, from 1 to 3.
C36_Witness ==
    /\ lastOp = "WheelDown"
    /\ e.offsetY = 3
    /\ e.scrollMomentum \in {2358, 2359}

\* C36 as stated: the frame moves offsetY by round(momentum * 0.1) lines,
\* 2 lines for the momentum 15.
C36_Original ==
    /\ [](e.offsetY >= 0 /\ e.offsetY <= maxOffsetOf(e))
    /\ [][frameLaw(500)]_vars

C38_AnchorInDocument ==
    (~e.panicked /\ e.selectionStart) =>
        /\ e.selectionStartY >= 0
        /\ e.selectionStartY < Len(e.lines)
        /\ e.selectionStartX >= 0
        /\ e.selectionStartX <= Len(e.lines[e.selectionStartY + 1])

\* The lines a load of the written file reads for the chunk that is live.
reloaded == chunkWindow(ScanLines(disk'.bytes), e'.currentChunk)

\* C39: a load of the file right after a save shows the lines that were
\* saved: after a whole-file save the whole document, after a chunked save
\* the window of the chunk begins with the live lines that fall in it.
C39_SaveLoadRoundTrip ==
    [][/\ lastOp' = "saveEntireFile" =>
             loadFile(NewEditorStruct("f", 80, 24), disk').e.lines = e'.lines
       /\ lastOp' = "saveChunkToFile" =>
             Take(reloaded, Len(e'.lines)) = Take(e'.lines, maxLines)]_vars

\* C40: every selected rune that is visible on screen (its line is in a text
\* row and its display column c satisfies 0 <= c - offsetX < width) is
\* painted with the selection style at screen column c - offsetX, for every
\* horizontal offset.
C40_SelectionHighlighted ==
    (~e.panicked /\ e.selectionStart) =>
        LET s == selRange(e)
        IN  \A y \in s.startY..s.endY :
              (y >= e.offsetY /\ y - e.offsetY < e.height - 1 /\ y < Len(e.lines)) =>
                 LET line == LineAt(e, y)
                 IN  \A i \in 1..Len(line) :
                        LET c == startCol(line, i) - e.offsetX
                        IN  (/\ (y > s.startY \/ i - 1 >= s.startX)
                             /\ (y < s.endY \/ i - 1 < s.endX)
                             /\ c >= 0 /\ c < e.width) =>
                               [x |-> c, y |-> y - e.offsetY, ch |-> line[i]]
                                   \in drawSelection(e)

====
